---- MODULE Spec2Model ----
(***************************************************************************)
(* x402 payment negotiation layer of Monexus: payment verification         *)
(* (lib/x402/protocol.ts), the commitment/nullifier proof engine and the   *)
(* nullifier store (lib/zk/proof.ts), the route middleware (middleware.ts)  *)
(* and the /api/payments POST actions that verify a payment header.        *)
(*                                                                         *)
(* Strings that the code parses are sequences of one-character strings;    *)
(* hashes are records of their pre-images; a signature is the pair of the  *)
(* signing key and the message it was made over.                           *)
(***************************************************************************)
EXTENDS Integers, Sequences, FiniteSets, TLC

VARIABLES
  usedNullifiers,  \* proof.ts: const usedNullifiers = new Set<string>()
  now,             \* Math.floor(Date.now() / 1000), the server clock
  nodeEnv,         \* process.env.NODE_ENV
  deployerKey,     \* whether process.env.DEPLOYER_PRIVATE_KEY is set
  requests,        \* one record per inbound request: its position and response
  vin,             \* inputs of one call of verifyPaymentFromRequest
  vout,            \* its result
  rin,             \* inputs of one call of matchRoute
  rout             \* its result

vars == <<usedNullifiers, now, nodeEnv, deployerKey, requests, vin, vout, rin, rout>>

(***************************************************************************)
(* Bounds                                                                  *)
(***************************************************************************)
NumRequests == 2      \* request slots of the concurrent specification
T0 == 10000           \* the clock value at which the payloads were built

(***************************************************************************)
(* Program constants                                                       *)
(***************************************************************************)
X402Version == 1
PaymentMaxAge == 300
ProofMaxAge == 3600
ProofMaxSkew == 60
EtherDecimals == 18
CHAIN_ID == 31337

(***************************************************************************)
(* Addresses and String.prototype.toLowerCase on them                      *)
(***************************************************************************)
WalletA == "0xAAA1"
WalletB == "0xBBB2"
AgentWallet == "0xA6E7"
ContractAddress == "0xC0DE"
OtherContract == "0xDEAD"
StrayAddress == "0xF00D"
ZeroAddress == "0x0000"
Undefined == "undefined"

toLowerCase(s) ==
  CASE s = "0xAAA1" -> "0xaaa1"
    [] s = "0xBBB2" -> "0xbbb2"
    [] s = "0xA6E7" -> "0xa6e7"
    [] s = "0xC0DE" -> "0xc0de"
    [] s = "0xDEAD" -> "0xdead"
    [] s = "0xF00D" -> "0xf00d"
    [] OTHER -> s

\* ethers.getAddress: the checksummed spelling of an address
getAddress(s) ==
  CASE toLowerCase(s) = "0xaaa1" -> "0xAAA1"
    [] toLowerCase(s) = "0xbbb2" -> "0xBBB2"
    [] toLowerCase(s) = "0xa6e7" -> "0xA6E7"
    [] toLowerCase(s) = "0xc0de" -> "0xC0DE"
    [] toLowerCase(s) = "0xdead" -> "0xDEAD"
    [] toLowerCase(s) = "0xf00d" -> "0xF00D"
    [] OTHER -> s

\* JavaScript truthiness of an optional string
Truthy(s) == s # Undefined /\ s # ""

(***************************************************************************)
(* ethers.parseEther: a decimal string to integer base units.  The value   *)
(* is kept in three limbs (whole ethers, the upper nine and the lower nine *)
(* of the 18 decimals) so that no limb exceeds 32 bits.                    *)
(***************************************************************************)
DigitChars == {"0", "1", "2", "3", "4", "5", "6", "7", "8", "9"}

DigitVal(c) ==
  CASE c = "0" -> 0 [] c = "1" -> 1 [] c = "2" -> 2 [] c = "3" -> 3
    [] c = "4" -> 4 [] c = "5" -> 5 [] c = "6" -> 6 [] c = "7" -> 7
    [] c = "8" -> 8 [] c = "9" -> 9

RECURSIVE DigitsToNat(_)
DigitsToNat(d) ==
  IF d = <<>> THEN 0
  ELSE 10 * DigitsToNat(SubSeq(d, 1, Len(d) - 1)) + DigitVal(d[Len(d)])

AllDigits(d) == \A i \in 1..Len(d) : d[i] \in DigitChars
AllZeros(d) == \A i \in 1..Len(d) : d[i] = "0"

RECURSIVE PadZeros(_, _)
PadZeros(d, n) == IF Len(d) >= n THEN d ELSE PadZeros(Append(d, "0"), n)

DotPositions(s) == {i \in 1..Len(s) : s[i] = "."}

ParseThrow == [threw |-> TRUE, neg |-> FALSE, whole |-> 0, hi |-> 0, lo |-> 0]

parseEther(str) ==
  LET neg   == Len(str) > 0 /\ str[1] = "-"
      body  == IF neg THEN SubSeq(str, 2, Len(str)) ELSE str
      dots  == DotPositions(body)
      dot   == IF dots = {} THEN Len(body) + 1 ELSE CHOOSE i \in dots : TRUE
      whole == SubSeq(body, 1, dot - 1)
      dec   == SubSeq(body, dot + 1, Len(body))
      pad   == PadZeros(dec, EtherDecimals)
      half  == EtherDecimals \div 2
      w     == DigitsToNat(whole)
      h     == DigitsToNat(SubSeq(pad, 1, half))
      l     == DigitsToNat(SubSeq(pad, half + 1, EtherDecimals))
  IN  IF \/ Cardinality(dots) > 1
         \/ ~AllDigits(whole) \/ ~AllDigits(dec)
         \/ Len(whole) + Len(dec) = 0
         \/ ~AllZeros(SubSeq(pad, EtherDecimals + 1, Len(pad)))
      THEN ParseThrow
      ELSE [threw |-> FALSE,
            neg   |-> neg /\ (w + h + l > 0),
            whole |-> w, hi |-> h, lo |-> l]

\* a comparison that looks at whole ethers only
WeiLessWholeOnly(a, b) ==
  (IF a.neg THEN -1 ELSE 1) * a.whole < (IF b.neg THEN -1 ELSE 1) * b.whole

\* a < b on bigint base units
WeiLess(a, b) ==
  LET sa == IF a.neg THEN -1 ELSE 1
      sb == IF b.neg THEN -1 ELSE 1
      ka == <<sa * a.whole, sa * a.hi, sa * a.lo>>
      kb == <<sb * b.whole, sb * b.hi, sb * b.lo>>
  IN  \/ ka[1] < kb[1]
      \/ ka[1] = kb[1] /\ ka[2] < kb[2]
      \/ ka[1] = kb[1] /\ ka[2] = kb[2] /\ ka[3] < kb[3]

(***************************************************************************)
(* Signatures.  signMessage(key, m) is the pair (key, m); verifyMessage    *)
(* recovers the key's address when the message is the signed one, some     *)
(* unrelated address when it is another message, and throws on a value     *)
(* that is not a signature.                                                *)
(***************************************************************************)
NoSignature == [kind |-> "absent"]
GarbageSignature == [kind |-> "garbage"]

signMessage(key, message) == [kind |-> "sig", by |-> toLowerCase(key), over |-> message]

verifyMessage(message, signature) ==
  IF signature.kind # "sig"
  THEN [threw |-> TRUE, address |-> ""]
  ELSE [threw |-> FALSE,
        address |-> IF signature.over = message
                    THEN getAddress(signature.by) ELSE StrayAddress]

\* keccak256(abi.encode(address, uint256, string, uint256)) of the Exact scheme
ExactMessage(sender, amountWei, nonce, timestamp) ==
  [t |-> "exact", sender |-> toLowerCase(sender), amount |-> amountWei,
   nonce |-> nonce, timestamp |-> timestamp]

(***************************************************************************)
(* Proof engine (lib/zk/proof.ts)                                          *)
(***************************************************************************)
NoProof == [present |-> FALSE]

\* nonce: the randomBytes(32) draw; ms: Date.now() at creation
createPaymentCommitment(amount, sender, receiver, bountyId, nonce, ms) ==
  [commitment |-> [amount |-> parseEther(amount), nonce |-> nonce,
                   sender |-> toLowerCase(sender),
                   receiver |-> toLowerCase(receiver),
                   bountyId |-> IF bountyId = Undefined THEN "" ELSE bountyId],
   nonce      |-> nonce,
   nullifier  |-> [nonce |-> nonce, sender |-> toLowerCase(sender), ms |-> ms]]

ProofMessage(commitment, nullifier, amountHash, senderHash, receiverHash, timestamp) ==
  [t |-> "zk", commitment |-> commitment, nullifier |-> nullifier,
   amountHash |-> amountHash, senderHash |-> senderHash,
   receiverHash |-> receiverHash, timestamp |-> timestamp]

generatePaymentProof(amount, sender, receiver, signer, chainId, contractAddress, bountyId, nonce, clock) ==
  LET c            == createPaymentCommitment(amount, sender, receiver, bountyId,
                                              nonce, clock * 1000)
      amountHash   == [amount |-> parseEther(amount), nonce |-> nonce]
      senderHash   == [address |-> toLowerCase(sender), nonce |-> nonce]
      receiverHash == [address |-> toLowerCase(receiver), nonce |-> nonce]
      timestamp    == clock
      proofMessage == ProofMessage(c.commitment, c.nullifier, amountHash,
                                   senderHash, receiverHash, timestamp)
  IN  [present    |-> TRUE,
       commitment |-> c.commitment,
       nullifier  |-> c.nullifier,
       proof      |-> [amountHash |-> amountHash, senderHash |-> senderHash,
                       receiverHash |-> receiverHash, timestamp |-> timestamp,
                       signature |-> signMessage(signer, proofMessage)],
       publicInputs |-> [minAmount |-> amount, chainId |-> chainId,
                         contractAddress |-> contractAddress,
                         bountyId |-> bountyId]]

\* an expiry check that is off by one second
ProofExpiredInclusive(clock, timestamp) == clock - timestamp >= ProofMaxAge

\* now - proof.proof.timestamp > 3600
ProofExpired(clock, timestamp) == clock - timestamp > ProofMaxAge

\* proof.proof.timestamp > now + 60
ProofInFuture(clock, timestamp) == timestamp > clock + ProofMaxSkew

\* a chain check that lets every chain through
ChainMismatchNever(proof, expectedChainId) == FALSE

\* proof.publicInputs.chainId !== expectedChainId
ChainMismatch(proof, expectedChainId) == proof.publicInputs.chainId # expectedChainId

verifyPaymentProof(proof, expectedChainId, expectedContractAddress, clock) ==
  LET proofMessage == ProofMessage(proof.commitment, proof.nullifier,
                                   proof.proof.amountHash, proof.proof.senderHash,
                                   proof.proof.receiverHash, proof.proof.timestamp)
      recovered    == verifyMessage(proofMessage, proof.proof.signature)
  IN  IF ChainMismatch(proof, expectedChainId)
      THEN [valid |-> FALSE, error |-> "Chain ID mismatch"]
      ELSE IF toLowerCase(proof.publicInputs.contractAddress)
                # toLowerCase(expectedContractAddress)
      THEN [valid |-> FALSE, error |-> "Contract address mismatch"]
      ELSE IF ProofExpired(clock, proof.proof.timestamp)
      THEN [valid |-> FALSE, error |-> "Proof expired"]
      ELSE IF ProofInFuture(clock, proof.proof.timestamp)
      THEN [valid |-> FALSE, error |-> "Proof timestamp in the future"]
      ELSE IF recovered.threw
      THEN [valid |-> FALSE, error |-> "Proof verification failed"]
      ELSE IF recovered.address = "" \/ recovered.address = ZeroAddress
      THEN [valid |-> FALSE, error |-> "Invalid proof signature"]
      ELSE [valid |-> TRUE, error |-> ""]

\* Nullifier store
isNullifierUsed(store, nullifier) == nullifier \in store

markNullifierUsedReplace(store, nullifier) == {nullifier}

markNullifierUsed(store, nullifier) == store \cup {nullifier}

clearNullifiers(store) == {}

(***************************************************************************)
(* Wire encoding (lib/x402/protocol.ts).  JSON.stringify drops the         *)
(* properties whose value is undefined; base64 wraps the JSON text.        *)
(***************************************************************************)
JSONStringify(obj) == [k \in {f \in DOMAIN obj : obj[f] # Undefined} |-> obj[k]]

encodePaymentRequired(requirements) ==
  [present |-> TRUE,
   b64 |-> [i \in 1..Len(requirements) |-> JSONStringify(requirements[i])]]

decodePaymentRequired(encoded) == encoded.b64

NoHeader == [kind |-> "none"]
\* a header that is present with the empty string as its value
EmptyHeader == [kind |-> "empty"]
GarbageHeader == [kind |-> "garbage"]

encodePaymentPayload(payload) == [kind |-> "b64", json |-> payload]

decodePaymentPayload(encoded) ==
  IF encoded.kind = "b64"
  THEN [threw |-> FALSE, value |-> encoded.json]
  ELSE [threw |-> TRUE]

encodeSettlementResponse(response) == [present |-> TRUE, b64 |-> response]

NoHeaderValue == [present |-> FALSE]

(***************************************************************************)
(* createPaymentRequiredResponse.  An error message is a sequence of text  *)
(* fragments; the empty sequence is the absent (falsy) message.            *)
(***************************************************************************)
\* a 402 that carries the requirements in its body only
createPaymentRequiredResponseBodyOnly(requirements, message) ==
  [status  |-> 402,
   x402Version |-> 1,
   error   |-> IF message = <<>> THEN <<"Payment Required">> ELSE message,
   accepts |-> [i \in 1..Len(requirements) |-> JSONStringify(requirements[i])],
   paymentRequired |-> [present |-> FALSE],
   paymentResponse |-> [present |-> FALSE],
   next    |-> FALSE]

createPaymentRequiredResponse(requirements, message) ==
  [status  |-> 402,
   x402Version |-> 1,
   error   |-> IF message = <<>> THEN <<"Payment Required">> ELSE message,
   accepts |-> [i \in 1..Len(requirements) |-> JSONStringify(requirements[i])],
   paymentRequired |-> encodePaymentRequired(requirements),
   paymentResponse |-> NoHeaderValue,
   next    |-> FALSE]

\* a response that is not a 402: only its status and settlement header matter
PlainResponse(status) ==
  [status |-> status, x402Version |-> 0, error |-> <<>>, accepts |-> <<>>,
   paymentRequired |-> NoHeaderValue, paymentResponse |-> NoHeaderValue,
   next |-> FALSE]

\* NextResponse.next(): the request goes on to the route handler
NextResponseNext == [PlainResponse(200) EXCEPT !.next = TRUE]

(***************************************************************************)
(* verifyPaymentFromRequest                                                *)
(***************************************************************************)
NoPayload == [absent |-> TRUE]

\* a scheme check that lets every scheme through
SchemeMismatchNever(payload, requirements) == FALSE

\* payload.scheme !== requirements.scheme
SchemeMismatch(payload, requirements) == payload.scheme # requirements.scheme

\* an age check with the comparison turned round
PaymentExpiredFlipped(clock, timestamp) == clock - timestamp <= PaymentMaxAge

\* now - payload.payload.timestamp > 300
PaymentExpired(clock, timestamp) == clock - timestamp > PaymentMaxAge

\* a rejection that loses its reason
RejectedNoReason(message) == [valid |-> FALSE, payload |-> NoPayload, error |-> <<>>]

Rejected(message) == [valid |-> FALSE, payload |-> NoPayload, error |-> message]

NullifierSpentError == <<"Payment already used (nullifier spent)">>

\* headers.get() gave null or the empty string
HeaderFalsy(h) == h.kind \in {"none", "empty"}

\* a request that is read from the legacy header first
PaymentHeaderLegacyFirst(request) ==
  IF ~HeaderFalsy(request.xPayment) THEN request.xPayment
  ELSE request.paymentSignature

\* request.headers.get('payment-signature') || request.headers.get('x-payment')
PaymentHeaderOf(request) ==
  IF ~HeaderFalsy(request.paymentSignature) THEN request.paymentSignature
  ELSE request.xPayment

verifyPaymentFromRequest(request, requirements, chainId, clock, store) ==
  LET paymentHeader == PaymentHeaderOf(request)
      decoded  == decodePaymentPayload(paymentHeader)
      payload  == decoded.value
      requiredAmount == parseEther(requirements.maxAmountRequired)
      paidAmount     == parseEther(payload.payload.amount)
      zkResult == verifyPaymentProof(payload.payload.zkProof, chainId,
                    IF Truthy(requirements.contractAddress)
                    THEN requirements.contractAddress ELSE "", clock)
      message  == ExactMessage(payload.payload.sender, paidAmount,
                               payload.payload.nonce, payload.payload.timestamp)
      recovered == verifyMessage(message, payload.payload.signature)
      failed   == Rejected(<<"Payment verification failed: ">>)
  IN  IF HeaderFalsy(paymentHeader)
      THEN Rejected(<<"No payment header provided">>)
      ELSE IF decoded.threw THEN failed
      ELSE IF payload.x402Version # X402Version
      THEN Rejected(<<"Unsupported x402 version">>)
      ELSE IF SchemeMismatch(payload, requirements)
      THEN Rejected(<<"Payment scheme mismatch">>)
      ELSE IF requiredAmount.threw \/ paidAmount.threw THEN failed
      ELSE IF WeiLess(paidAmount, requiredAmount)
      THEN Rejected(<<"Insufficient payment amount">>)
      ELSE IF PaymentExpired(clock, payload.payload.timestamp)
      THEN Rejected(<<"Payment expired">>)
      ELSE IF /\ payload.scheme = "zk-exact" /\ payload.payload.zkProof.present
              /\ ~zkResult.valid
      THEN Rejected(<<"ZK proof invalid: ", zkResult.error>>)
      ELSE IF /\ payload.scheme = "zk-exact" /\ payload.payload.zkProof.present
              /\ isNullifierUsed(store, payload.payload.zkProof.nullifier)
      THEN Rejected(NullifierSpentError)
      ELSE IF /\ payload.scheme = "exact"
              /\ payload.payload.signature.kind # "absent"
              /\ (paidAmount.neg \/ recovered.threw)
      THEN failed
      ELSE IF /\ payload.scheme = "exact"
              /\ payload.payload.signature.kind # "absent"
              /\ toLowerCase(recovered.address) # toLowerCase(payload.payload.sender)
      THEN Rejected(<<"Invalid payment signature">>)
      ELSE [valid |-> TRUE, payload |-> payload, error |-> <<>>]

\* a gate that lets the request through whatever verification said
GateOpen(result, requirements) ==
  [pc |-> "verified", response |-> PlainResponse(0)]

\* what every entry point does with the result:
\* if (!paymentResult.valid) return createPaymentRequiredResponse(...)
Gate(result, requirements) ==
  IF ~result.valid
  THEN [pc |-> "done",
        response |-> createPaymentRequiredResponse(<<requirements>>, result.error)]
  ELSE [pc |-> "verified", response |-> PlainResponse(0)]

(***************************************************************************)
(* settlePayment.  adminSigner: whether a signer was passed; txOk: whether *)
(* sendTransaction and tx.wait succeed.  Returns the store and the         *)
(* SettlementResponse.                                                     *)
(***************************************************************************)
\* a settlement that forgets to mark the nullifier
settlePaymentNoMark(payload, requirements, adminSigner, txOk, store, clock) ==
  [store |-> store,
   settlement |-> [success |-> TRUE, txHash |-> Undefined,
                   receipt |-> [kind |-> "offchain",
                                nonce |-> payload.payload.nonce,
                                ms |-> clock * 1000],
                   error |-> <<>>]]

settlePayment(payload, requirements, adminSigner, txOk, store, clock) ==
  LET marked == IF payload.scheme = "zk-exact" /\ payload.payload.zkProof.present
                THEN markNullifierUsed(store, payload.payload.zkProof.nullifier)
                ELSE store
  IN  IF adminSigner /\ Truthy(requirements.contractAddress)
      THEN IF txOk
           THEN [store |-> marked,
                 settlement |-> [success |-> TRUE,
                                 txHash |-> "0xTX",
                                 receipt |-> [kind |-> "settled", txHash |-> "0xTX",
                                              ms |-> clock * 1000],
                                 error |-> <<>>]]
           ELSE [store |-> marked,
                 settlement |-> [success |-> FALSE, txHash |-> Undefined,
                                 receipt |-> [kind |-> "none"],
                                 error |-> <<"Settlement failed: ">>]]
      ELSE [store |-> marked,
            settlement |-> [success |-> TRUE, txHash |-> Undefined,
                            receipt |-> [kind |-> "offchain",
                                         nonce |-> payload.payload.nonce,
                                         ms |-> clock * 1000],
                            error |-> <<>>]]

(***************************************************************************)
(* Client payload construction (lib/x402/client.ts, createPayment).        *)
(* nonce, zkNonce: the randomBytes draws; clock: the client's Date.now().  *)
(***************************************************************************)
createPayment(requirement, amount, useZk, walletAddress, signer, chainId, nonce, zkNonce, clock) ==
  IF useZk \/ requirement.scheme = "zk-exact"
  THEN [x402Version |-> 1, scheme |-> "zk-exact", network |-> requirement.network,
        payload |-> [sender    |-> walletAddress,
                     signature |-> NoSignature,
                     zkProof   |-> generatePaymentProof(amount, walletAddress,
                                     requirement.payTo, signer, chainId,
                                     IF Truthy(requirement.contractAddress)
                                     THEN requirement.contractAddress ELSE "",
                                     requirement.bountyId, zkNonce, clock),
                     amount    |-> amount,
                     nonce     |-> nonce,
                     timestamp |-> clock]]
  ELSE [x402Version |-> 1, scheme |-> "exact", network |-> requirement.network,
        payload |-> [sender    |-> walletAddress,
                     signature |-> signMessage(signer,
                                     ExactMessage(walletAddress, parseEther(amount),
                                                  nonce, clock)),
                     zkProof   |-> NoProof,
                     amount    |-> amount,
                     nonce     |-> nonce,
                     timestamp |-> clock]]

(***************************************************************************)
(* Inputs: decimal amounts, requirements, payloads                         *)
(***************************************************************************)
Amt001   == <<"0", ".", "0", "0", "1">>
Amt0010  == <<"0", ".", "0", "0", "1", "0">>
Amt0009  == <<"0", ".", "0", "0", "0", "9">>
Amt002   == <<"0", ".", "0", "0", "2">>
AmtNeg   == <<"-", "1">>
AmtExp   == <<"1", "e", "-", "3">>
AmtLong  == <<"0", ".", "0", "0", "0", "0", "0", "0", "0", "0", "0", "0",
              "0", "0", "0", "0", "0", "0", "0", "0", "9">>

Network == "eip155:31337"

\* the requirement every gate of this model builds: price 0.001, paid to the agent
Requirements(scheme, price, resource) ==
  [scheme |-> scheme, network |-> Network, maxAmountRequired |-> price,
   payTo |-> AgentWallet, resource |-> resource,
   description |-> "Run the AI agent", mimeType |-> "application/json",
   contractAddress |-> ContractAddress, bountyId |-> Undefined]

Request(header) == [paymentSignature |-> header, xPayment |-> NoHeader]

Nonce == "nonce-1"
ZkNonce == "zknonce-1"

\* a payload as an arbitrary sender can put it on the wire: the fields of an
\* honest payload, each replaced independently
SignatureOf(kind, sender, amount, timestamp) ==
  CASE kind = "absent"  -> NoSignature
    [] kind = "good"    -> signMessage(WalletA,
                             ExactMessage(sender, parseEther(amount), Nonce, timestamp))
    [] kind = "other"   -> signMessage(WalletB,
                             ExactMessage(sender, parseEther(amount), Nonce, timestamp))
    [] kind = "stale"   -> signMessage(WalletA,
                             ExactMessage(sender, parseEther(Amt0009), Nonce, timestamp))
    [] kind = "garbage" -> GarbageSignature

ProofOf(kind, sender, amount) ==
  CASE kind = "absent"     -> NoProof
    [] kind = "good"       -> generatePaymentProof(amount, sender, AgentWallet, WalletA,
                                CHAIN_ID, ContractAddress, Undefined, ZkNonce, T0)
    [] kind = "wrongchain" -> generatePaymentProof(amount, sender, AgentWallet, WalletA,
                                1, ContractAddress, Undefined, ZkNonce, T0)
    [] kind = "expired"    -> generatePaymentProof(amount, sender, AgentWallet, WalletA,
                                CHAIN_ID, ContractAddress, Undefined, ZkNonce,
                                T0 - ProofMaxAge - 1)
    [] kind = "forged"     -> generatePaymentProof(amount, sender, AgentWallet, WalletB,
                                CHAIN_ID, ContractAddress, Undefined, ZkNonce, T0)
    [] kind = "wrongcontract" -> generatePaymentProof(amount, sender, AgentWallet,
                                WalletA, CHAIN_ID, OtherContract, Undefined, ZkNonce, T0)
    [] kind = "future"     -> generatePaymentProof(amount, sender, AgentWallet, WalletA,
                                CHAIN_ID, ContractAddress, Undefined, ZkNonce,
                                T0 + ProofMaxSkew + 1)
    [] kind = "cheap"      -> generatePaymentProof(Amt0009, sender, AgentWallet, WalletA,
                                CHAIN_ID, ContractAddress, Undefined, ZkNonce, T0)
    [] kind = "badsig"     -> [generatePaymentProof(amount, sender, AgentWallet, WalletA,
                                 CHAIN_ID, ContractAddress, Undefined, ZkNonce, T0)
                               EXCEPT !.proof.signature = GarbageSignature]

WirePayload(version, scheme, amount, timestamp, sender, sigKind, zkKind) ==
  [x402Version |-> version, scheme |-> scheme, network |-> Network,
   payload |-> [sender    |-> sender,
                signature |-> SignatureOf(sigKind, sender, amount, timestamp),
                zkProof   |-> ProofOf(zkKind, sender, amount),
                amount    |-> amount,
                nonce     |-> Nonce,
                timestamp |-> timestamp]]

Schemes == {"exact", "zk-exact"}
Versions == {1, 2}
Amounts == {Amt001, Amt0010, Amt0009, Amt002, AmtNeg, AmtExp, AmtLong}
Prices == {Amt001, Amt002}
Timestamps == {T0 - PaymentMaxAge - 1, T0 - PaymentMaxAge, T0}
Senders == {WalletA, toLowerCase(WalletA)}
SigKinds == {"absent", "good", "other", "stale", "garbage"}
ZkKinds == {"absent", "good", "wrongchain", "wrongcontract", "expired", "future",
            "forged", "cheap", "badsig"}

WirePayloads ==
  {WirePayload(v, sch, a, ts, snd, sk, zk) :
     v \in Versions, sch \in Schemes, a \in Amounts, ts \in Timestamps,
     snd \in Senders, sk \in SigKinds, zk \in ZkKinds}

WireHeaders == {NoHeader, GarbageHeader} \cup {encodePaymentPayload(p) : p \in WirePayloads}

\* the nullifier of the proofs generated at T0
Nullifier1 == [nonce |-> ZkNonce, sender |-> toLowerCase(WalletA), ms |-> T0 * 1000]

Resource == "https://monexus/api/paid"

VerifyInputs ==
  {[request |-> Request(h), requirements |-> Requirements(sch, price, Resource)] :
     h \in WireHeaders, sch \in Schemes, price \in Prices}

(***************************************************************************)
(* Idle values of the variables a specification does not use               *)
(***************************************************************************)
NoRequirements == [none |-> TRUE]

IdleRequest ==
  [entry |-> "none", pc |-> "idle", method |-> "", path |-> <<>>,
   header |-> NoHeader, requirements |-> NoRequirements, verified |-> FALSE,
   payload |-> NoPayload, ran |-> 0, response |-> PlainResponse(0)]

NoInput == [idle |-> TRUE]
NoOutput == [done |-> FALSE]

(***************************************************************************)
(* SpecVerify: one call of verifyPaymentFromRequest on arbitrary inputs    *)
(***************************************************************************)
InitVerify ==
  /\ usedNullifiers \in {{}, {Nullifier1}}
  /\ now = T0
  /\ nodeEnv = "production"
  /\ deployerKey = FALSE
  /\ requests = [r \in 1..NumRequests |-> IdleRequest]
  /\ vin \in VerifyInputs
  /\ vout = NoOutput
  /\ rin = NoInput
  /\ rout = NoOutput

CallVerify ==
  /\ vout = NoOutput
  /\ LET result == verifyPaymentFromRequest(vin.request, vin.requirements,
                                            CHAIN_ID, now, usedNullifiers)
     IN  vout' = [done |-> TRUE, result |-> result,
                  gate |-> Gate(result, vin.requirements)]
  /\ UNCHANGED <<usedNullifiers, now, nodeEnv, deployerKey, requests, vin, rin, rout>>

NextVerify == CallVerify

SpecVerify == InitVerify /\ [][NextVerify]_vars

(***************************************************************************)
(* Properties of verifyPaymentFromRequest (SpecVerify)                     *)
(***************************************************************************)
\* the value of each amount literal in units of 0.0001, written by hand
IsNumber(a) == a \in {Amt001, Amt0010, Amt0009, Amt002, AmtNeg}

AmountUnits(a) ==
  CASE a = Amt001  -> 10
    [] a = Amt0010 -> 10
    [] a = Amt0009 -> 9
    [] a = Amt002  -> 20
    [] a = AmtNeg  -> -10000

Decodable == vin.request.paymentSignature.kind = "b64"
Presented == vin.request.paymentSignature.json

\* C4: no payload whose amount is below requirement.maxAmountRequired, as a
\* number of base units, is accepted, whatever signature or proof it carries;
\* an amount that is no decimal number is not accepted either.
C4_InsufficientAmountRejected ==
  (vout.done /\ vout.result.valid) =>
     /\ Decodable
     /\ IsNumber(Presented.payload.amount)
     /\ AmountUnits(Presented.payload.amount)
          >= AmountUnits(vin.requirements.maxAmountRequired)

\* C4 witness: a correctly signed Exact payload of 0.0009 against a price of
\* 0.001 has been rejected for its amount.
C4_Witness ==
  /\ vout.done /\ Decodable
  /\ ~vout.result.valid
  /\ vout.result.error = <<"Insufficient payment amount">>
  /\ Presented = WirePayload(1, "exact", Amt0009, T0, WalletA, "good", "absent")
  /\ vin.requirements.maxAmountRequired = Amt001

\* C5: a payload whose scheme differs from the requirement's is never
\* accepted, and a version-1 payload is refused with the scheme-mismatch
\* error whatever signature or proof it carries.
C5_SchemeBinding ==
  (vout.done /\ Decodable /\ Presented.scheme # vin.requirements.scheme) =>
     /\ ~vout.result.valid
     /\ Presented.x402Version = 1 =>
          vout.result.error = <<"Payment scheme mismatch">>

\* C5 witness: a correctly signed, sufficient, fresh Exact payload has been
\* refused by a ZkExact requirement with the scheme-mismatch error.
C5_Witness ==
  /\ vout.done /\ Decodable
  /\ Presented = WirePayload(1, "exact", Amt001, T0, WalletA, "good", "absent")
  /\ vin.requirements.scheme = "zk-exact"
  /\ vin.requirements.maxAmountRequired = Amt001
  /\ vout.result.error = <<"Payment scheme mismatch">>

\* C6: every accepted payload passed its scheme's verification: an Exact
\* payload carries a signature that recovers to its sender, a ZkExact payload
\* carries a proof that verifyPaymentProof accepts and whose nullifier is
\* unused.
C6_SchemeVerified ==
  (vout.done /\ vout.result.valid) =>
     /\ Presented.scheme = "exact" =>
          /\ Presented.payload.signature.kind = "sig"
          /\ Presented.payload.signature.by = toLowerCase(Presented.payload.sender)
          /\ Presented.payload.signature.over =
               ExactMessage(Presented.payload.sender,
                            parseEther(Presented.payload.amount),
                            Presented.payload.nonce, Presented.payload.timestamp)
     /\ Presented.scheme = "zk-exact" =>
          /\ Presented.payload.zkProof.present
          /\ verifyPaymentProof(Presented.payload.zkProof, CHAIN_ID,
                                vin.requirements.contractAddress, now).valid
          /\ Presented.payload.zkProof.nullifier \notin usedNullifiers

\* the payload carries the data its scheme's verification inspects
ZkPresented == Presented.scheme = "zk-exact" /\ Presented.payload.zkProof.present
SigPresented == Presented.scheme = "exact" /\ Presented.payload.signature.kind # "absent"

\* the failures the presented header has, read off the input
Failures ==
  IF vin.request.paymentSignature.kind = "garbage" THEN {"undecodable"}
  ELSE IF ~Decodable THEN {}
  ELSE LET p == Presented.payload
           z == p.zkProof
       IN  {c \in {"version", "scheme", "malformed", "insufficient", "expired",
                   "chain", "contract", "proofexpired", "prooffuture",
                   "signature", "spent"} :
              CASE c = "version"   -> Presented.x402Version # 1
                [] c = "scheme"    -> Presented.scheme # vin.requirements.scheme
                [] c = "malformed" -> ~IsNumber(p.amount)
                [] c = "insufficient" ->
                     /\ IsNumber(p.amount)
                     /\ AmountUnits(p.amount)
                          < AmountUnits(vin.requirements.maxAmountRequired)
                [] c = "expired"   -> now - p.timestamp > 300
                [] c = "chain"     -> ZkPresented /\ z.publicInputs.chainId # 31337
                [] c = "contract"  ->
                     /\ ZkPresented
                     /\ z.publicInputs.contractAddress
                          \notin {"0xC0DE", "0xc0de"}
                [] c = "proofexpired" -> ZkPresented /\ now - z.proof.timestamp > 3600
                [] c = "prooffuture"  -> ZkPresented /\ z.proof.timestamp > now + 60
                [] c = "signature" ->
                     \/ ZkPresented /\ z.proof.signature.kind # "sig"
                     \/ /\ SigPresented
                        /\ ~(/\ p.signature.kind = "sig"
                             /\ p.signature.by = toLowerCase(p.sender)
                             /\ p.signature.over.amount = parseEther(p.amount)
                             /\ p.signature.over.timestamp = p.timestamp)
                [] c = "spent"     -> ZkPresented /\ z.nullifier \in usedNullifiers}

\* the reasons that name a failure of class c
ReasonsOf(c) ==
  CASE c = "undecodable"  -> {<<"Payment verification failed: ">>}
    [] c = "version"      -> {<<"Unsupported x402 version">>}
    [] c = "scheme"       -> {<<"Payment scheme mismatch">>}
    [] c = "malformed"    -> {<<"Payment verification failed: ">>}
    [] c = "insufficient" -> {<<"Insufficient payment amount">>}
    [] c = "expired"      -> {<<"Payment expired">>}
    [] c = "chain"        -> {<<"ZK proof invalid: ", "Chain ID mismatch">>}
    [] c = "contract"     -> {<<"ZK proof invalid: ", "Contract address mismatch">>}
    [] c = "proofexpired" -> {<<"ZK proof invalid: ", "Proof expired">>}
    [] c = "prooffuture"  -> {<<"ZK proof invalid: ", "Proof timestamp in the future">>}
    [] c = "signature"    -> {<<"ZK proof invalid: ", "Proof verification failed">>,
                              <<"Invalid payment signature">>,
                              <<"Payment verification failed: ">>}
    [] c = "spent"        -> {NullifierSpentError}

\* C11: a header with any verification failure is returned valid=false with
\* a reason that names one of its failures, and every valid=false result is
\* turned into a 402 whose error field is that reason; the answer is never a
\* 500 and never an accepted payment.
C11_FailuresSurfaced ==
  vout.done =>
     /\ Failures # {} =>
          /\ ~vout.result.valid
          /\ \E c \in Failures : vout.result.error \in ReasonsOf(c)
     /\ ~vout.result.valid =>
          /\ vout.result.error # <<>>
          /\ vout.result.payload = NoPayload
          /\ vout.gate.pc = "done"
          /\ vout.gate.response.status = 402
          /\ vout.gate.response.error = vout.result.error
          /\ vout.gate.response.accepts = <<JSONStringify(vin.requirements)>>

\* C11 witness: a fresh, sufficient ZkExact payload whose proof carries a
\* value that is no signature has been refused: the exception of the
\* signature recovery came back as a reason and went out as a 402.
C11_Witness ==
  /\ vout.done /\ Decodable
  /\ Presented = WirePayload(1, "zk-exact", Amt001, T0, WalletA, "absent", "badsig")
  /\ vin.requirements.scheme = "zk-exact"
  /\ vin.requirements.maxAmountRequired = Amt001
  /\ usedNullifiers = {}
  /\ Failures = {"signature"}
  /\ vout.result.error = <<"ZK proof invalid: ", "Proof verification failed">>
  /\ vout.gate.response.status = 402
  /\ vout.gate.response.error = vout.result.error

(***************************************************************************)
(* SpecProof: one call of verifyPaymentProof on arbitrary proofs            *)
(***************************************************************************)
ProofTimestamps ==
  {T0 - ProofMaxAge - 1, T0 - ProofMaxAge, T0 - ProofMaxAge + 1, T0,
   T0 + ProofMaxSkew, T0 + ProofMaxSkew + 1}

\* a proof generated at time ts, its signature replaced as sigKind says
ProofAt(ts, chainId, contractAddress, sigKind) ==
  LET honest == generatePaymentProof(Amt001, WalletA, AgentWallet, WalletA, chainId,
                                     contractAddress, Undefined, ZkNonce, ts)
      other  == generatePaymentProof(Amt001, WalletA, AgentWallet, WalletB, chainId,
                                     contractAddress, Undefined, ZkNonce, ts)
      moved  == generatePaymentProof(Amt002, WalletA, AgentWallet, WalletA, chainId,
                                     contractAddress, Undefined, ZkNonce, ts)
  IN  CASE sigKind = "good"    -> honest
        [] sigKind = "other"   -> other
        [] sigKind = "moved"   -> [honest EXCEPT !.proof.signature = moved.proof.signature]
        [] sigKind = "garbage" -> [honest EXCEPT !.proof.signature = GarbageSignature]

ProofInputs ==
  {[proof |-> ProofAt(ts, c, a, k), expectedChainId |-> CHAIN_ID,
    expectedContractAddress |-> e] :
     ts \in ProofTimestamps, c \in {CHAIN_ID, 1},
     a \in {ContractAddress, OtherContract},
     k \in {"good", "other", "moved", "garbage"},
     e \in {ContractAddress, toLowerCase(ContractAddress)}}

InitProof ==
  /\ usedNullifiers = {}
  /\ now = T0
  /\ nodeEnv = "production"
  /\ deployerKey = FALSE
  /\ requests = [r \in 1..NumRequests |-> IdleRequest]
  /\ vin \in ProofInputs
  /\ vout = NoOutput
  /\ rin = NoInput
  /\ rout = NoOutput

CallVerifyProof ==
  /\ vout = NoOutput
  /\ vout' = [done |-> TRUE,
              result |-> verifyPaymentProof(vin.proof, vin.expectedChainId,
                                            vin.expectedContractAddress, now)]
  /\ UNCHANGED <<usedNullifiers, now, nodeEnv, deployerKey, requests, vin, rin, rout>>

NextProof == CallVerifyProof

SpecProof == InitProof /\ [][NextProof]_vars

\* the chain, contract and signature checks of the proof in vin pass
OtherChecksPass ==
  /\ vin.proof.publicInputs.chainId = 31337
  /\ vin.proof.publicInputs.contractAddress \in {"0xC0DE", "0xc0de"}
  /\ vin.proof.proof.signature.kind = "sig"

\* C16: with the chain, contract and signature checks passing, a proof is
\* rejected as expired exactly when now - timestamp > 3600, rejected as in
\* the future exactly when timestamp > now + 60, and accepted for every
\* timestamp in [now - 3600, now + 60].
C16_FreshnessWindow ==
  (vout.done /\ OtherChecksPass) =>
     LET ts == vin.proof.proof.timestamp
     IN  /\ vout.result.error = "Proof expired" <=> now - ts > 3600
         /\ vout.result.error = "Proof timestamp in the future" <=> ts > now + 60
         /\ vout.result.valid <=> (now - 3600 <= ts /\ ts <= now + 60)

\* C16 witness: a proof exactly 3600 seconds old has been accepted.
C16_Witness ==
  /\ vout.done /\ OtherChecksPass
  /\ vin.proof.proof.timestamp = now - 3600
  /\ vout.result.valid

(***************************************************************************)
(* matchRoute.  A path is a sequence of characters; a route key            *)
(* "METHOD path" is the record of its two parts; the table lists its       *)
(* entries in Object.entries order.  In a route path "*" and a bracketed   *)
(* name are single symbols.                                                *)
(***************************************************************************)
MaxPathLen == 4     \* longest request path of SpecRoute

ParamTokens == {"[id]"}

toUpperCase(m) ==
  CASE m = "post" -> "POST"
    [] m = "get"  -> "GET"
    [] OTHER -> m

\* routePath.replace(/\*/g, '.*').replace(/\[([^\]]+)\]/g, '([^/]+)')
regexPattern(routePath) ==
  [i \in 1..Len(routePath) |->
     CASE routePath[i] = "*"          -> [kind |-> "any"]
       [] routePath[i] \in ParamTokens -> [kind |-> "segment"]
       [] OTHER                       -> [kind |-> "lit", c |-> routePath[i]]]

\* a backtracking match of re[i..] against s[j..], up to the end of s
RECURSIVE RegexMatch(_, _, _, _)
RegexMatch(re, i, s, j) ==
  IF i > Len(re) THEN j = Len(s) + 1
  ELSE CASE re[i].kind = "lit" ->
              /\ j <= Len(s)
              /\ s[j] = re[i].c
              /\ RegexMatch(re, i + 1, s, j + 1)
         [] re[i].kind = "any" ->
              \E k \in j..(Len(s) + 1) : RegexMatch(re, i + 1, s, k)
         [] re[i].kind = "segment" ->
              \E k \in (j + 1)..(Len(s) + 1) :
                 /\ \A m \in j..(k - 1) : s[m] # "/"
                 /\ RegexMatch(re, i + 1, s, k)

\* a pattern without the closing anchor: matches a prefix of the path
RegexTestPrefix(re, s) ==
  \E n \in 0..Len(s) : RegexMatch(re, 1, SubSeq(s, 1, n), 1)

\* new RegExp(`^${regexPattern}$`).test(pathname)
RegexTest(re, s) == RegexMatch(re, 1, s, 1)

NoMatch == [null |-> TRUE]

\* a matcher that ignores the request method
matchRouteAnyMethod(pathname, method, routes) ==
  LET matching == {i \in 1..Len(routes) :
                     RegexTest(regexPattern(routes[i].key.path), pathname)}
      first(S) == CHOOSE i \in S : \A j \in S : i <= j
  IN  IF matching # {}
      THEN [null |-> FALSE, key |-> routes[first(matching)].key,
            config |-> routes[first(matching)].config]
      ELSE NoMatch

matchRoute(pathname, method, routes) ==
  LET routeKey == [method |-> toUpperCase(method), path |-> pathname]
      exact    == {i \in 1..Len(routes) : routes[i].key = routeKey}
      matching == {i \in 1..Len(routes) :
                     /\ \/ routes[i].key.method = toUpperCase(method)
                        \/ routes[i].key.method = "*"
                     /\ RegexTest(regexPattern(routes[i].key.path), pathname)}
      first(S) == CHOOSE i \in S : \A j \in S : i <= j
  IN  IF exact # {}
      THEN [null |-> FALSE, key |-> routeKey, config |-> routes[first(exact)].config]
      ELSE IF matching # {}
      THEN [null |-> FALSE, key |-> routes[first(matching)].key,
            config |-> routes[first(matching)].config]
      ELSE NoMatch

(***************************************************************************)
(* SpecRoute: one call of matchRoute on a two-entry table                  *)
(***************************************************************************)
PathChars == {"/", "a", "b"}

RECURSIVE PathsOfLen(_)
PathsOfLen(n) ==
  IF n = 1 THEN {<<"/">>}
  ELSE {Append(p, c) : p \in PathsOfLen(n - 1), c \in PathChars}

Paths == UNION {PathsOfLen(n) : n \in 1..MaxPathLen}

RoutePaths ==
  {<<"/", "a">>, <<"/", "a", "/", "b">>, <<"/", "*">>, <<"/", "[id]">>,
   <<"/", "a", "*">>, <<"/", "[id]", "/", "b">>, <<"*", "b">>, <<"/", "a", "/", "[id]">>}

RouteKeys == {[method |-> m, path |-> p] : m \in {"GET", "POST", "*"}, p \in RoutePaths}

Policy(n) ==
  [price |-> Amt001, description |-> n, useZkProof |-> TRUE, bountyId |-> Undefined]

RouteTables ==
  {<<[key |-> k1, config |-> Policy("first")], [key |-> k2, config |-> Policy("second")]>> :
     k1 \in RouteKeys, k2 \in RouteKeys} \ 
  {<<[key |-> k, config |-> Policy("first")], [key |-> k, config |-> Policy("second")]>> :
     k \in RouteKeys}

RouteInputs ==
  {[pathname |-> p, method |-> m, routes |-> t] :
     p \in Paths, m \in {"GET", "post"}, t \in RouteTables}

InitRoute ==
  /\ usedNullifiers = {}
  /\ now = T0
  /\ nodeEnv = "production"
  /\ deployerKey = FALSE
  /\ requests = [r \in 1..NumRequests |-> IdleRequest]
  /\ vin = NoInput
  /\ vout = NoOutput
  /\ rin \in RouteInputs
  /\ rout = NoOutput

CallMatchRoute ==
  /\ rout = NoOutput
  /\ rout' = [done |-> TRUE,
              result |-> matchRoute(rin.pathname, rin.method, rin.routes)]
  /\ UNCHANGED <<usedNullifiers, now, nodeEnv, deployerKey, requests, vin, vout, rin>>

NextRoute == CallMatchRoute

SpecRoute == InitRoute /\ [][NextRoute]_vars

\* the set of positions of s that the first i symbols of a pattern can reach
RECURSIVE Reach(_, _, _)
Reach(pat, i, s) ==
  IF i = 0 THEN {1}
  ELSE LET P == Reach(pat, i - 1, s)
       IN  IF pat[i] = "*"
           THEN {k \in 1..(Len(s) + 1) : \E j \in P : j <= k}
           ELSE IF pat[i] \in ParamTokens
           THEN {k \in 2..(Len(s) + 1) :
                   \E j \in P : j < k /\ \A m \in j..(k - 1) : s[m] # "/"}
           ELSE {j + 1 : j \in {q \in P : q <= Len(s) /\ s[q] = pat[i]}}

\* "*" stands for any run of characters, "[name]" for a non-empty run without
\* a slash, every other symbol for itself, and the whole path is consumed
GlobMatches(pat, s) == (Len(s) + 1) \in Reach(pat, Len(pat), s)

\* C9: matchRoute returns the policy stored under the exact key
\* "METHOD path" when there is one, even behind a matching pattern entry;
\* otherwise the first entry in table order whose method is the request's or
\* "*" and whose path pattern matches the whole path; otherwise null.
C9_MatchRoute ==
  rout.done =>
    LET M     == toUpperCase(rin.method)
        t     == rin.routes
        exact == {i \in 1..Len(t) : t[i].key.method = M /\ t[i].key.path = rin.pathname}
        cand  == {i \in 1..Len(t) :
                    /\ t[i].key.method \in {M, "*"}
                    /\ GlobMatches(t[i].key.path, rin.pathname)}
    IN  IF exact # {}
        THEN \E i \in exact : /\ ~rout.result.null
                               /\ rout.result.key = t[i].key
                               /\ rout.result.config = t[i].config
        ELSE IF cand # {}
        THEN \E i \in cand : /\ \A j \in cand : i <= j
                              /\ ~rout.result.null
                              /\ rout.result.key = t[i].key
                              /\ rout.result.config = t[i].config
        ELSE rout.result = NoMatch

\* C9 witness: the exact key is the second entry, behind a pattern entry that
\* also matches the path, and matchRoute has returned the second entry.
C9_Witness ==
  /\ rout.done
  /\ rin.pathname = <<"/", "a">>
  /\ rin.method = "post"
  /\ rin.routes[1].key = [method |-> "*", path |-> <<"/", "*">>]
  /\ rin.routes[2].key = [method |-> "POST", path |-> <<"/", "a">>]
  /\ rout.result.config = Policy("second")

(***************************************************************************)
(* Spec: the server.  Requests arrive in slot order and run concurrently;  *)
(* a step is the code between two awaits that yield to other requests.     *)
(***************************************************************************)
AgentPath    == <<"/", "api", "/", "ai", "/", "agent">>
AgentSubPath == <<"/", "api", "/", "ai", "/", "agent", "/", "x">>
PostsPath    == <<"/", "api", "/", "posts">>
PaidPath     == <<"/", "api", "/", "paid">>
PaymentsPath == <<"/", "api", "/", "payments">>

\* middleware.ts: PROTECTED_ROUTES
PROTECTED_ROUTES ==
  <<[key    |-> [method |-> "POST", path |-> AgentPath],
     config |-> [price |-> Amt001, description |-> "Run the AI agent",
                 useZkProof |-> TRUE, bountyId |-> Undefined]]>>

SchemeOf(useZkProof) == IF useZkProof THEN "zk-exact" ELSE "exact"

\* the payloads a client built at T0 for the price 0.001
ZkPayload1 ==
  createPayment(Requirements("zk-exact", Amt001, Resource), Amt001, TRUE,
                WalletA, WalletA, CHAIN_ID, Nonce, ZkNonce, T0)
ExactPayload1 ==
  createPayment(Requirements("exact", Amt001, Resource), Amt001, FALSE,
                WalletA, WalletA, CHAIN_ID, Nonce, ZkNonce, T0)

Headers == {NoHeader, encodePaymentPayload(ZkPayload1), encodePaymentPayload(ExactPayload1)}

\* the instants at which the server clock is observed
Times == {T0, T0 + PaymentMaxAge + 1}

Slots == 1..NumRequests

CanArrive(r) ==
  /\ requests[r].pc = "idle"
  /\ r > 1 => requests[r - 1].pc # "idle"

Init ==
  /\ usedNullifiers = {}
  /\ now = T0
  /\ nodeEnv \in {"production", "development"}
  /\ deployerKey \in BOOLEAN
  /\ requests = [r \in Slots |-> IdleRequest]
  /\ vin = NoInput
  /\ vout = NoOutput
  /\ rin = NoInput
  /\ rout = NoOutput

Tick ==
  /\ \E t \in Times : t > now /\ now' = t
  /\ UNCHANGED <<usedNullifiers, nodeEnv, deployerKey, requests, vin, vout, rin, rout>>

(***************************************************************************)
(* withX402Payment: verification, the wrapped handler, settlement          *)
(***************************************************************************)
\* the configuration of the wrapped route
WrapperRequirements == Requirements("zk-exact", Amt001, Resource)

WrapperVerifyMarks(r, h) ==
  LET result == verifyPaymentFromRequest(Request(h), WrapperRequirements,
                                         CHAIN_ID, now, usedNullifiers)
      gate   == Gate(result, WrapperRequirements)
  IN  /\ CanArrive(r)
      /\ requests' = [requests EXCEPT ![r] =
           [entry |-> "withX402Payment", pc |-> gate.pc, method |-> "POST",
            path |-> PaidPath, header |-> h,
            requirements |-> WrapperRequirements, verified |-> result.valid,
            payload |-> result.payload, ran |-> 0, response |-> gate.response]]
      /\ usedNullifiers' =
           IF result.valid /\ result.payload.payload.zkProof.present
           THEN markNullifierUsed(usedNullifiers,
                                  result.payload.payload.zkProof.nullifier)
           ELSE usedNullifiers
      /\ UNCHANGED <<now, nodeEnv, deployerKey, vin, vout, rin, rout>>

WrapperVerify(r, h) ==
  LET result == verifyPaymentFromRequest(Request(h), WrapperRequirements,
                                         CHAIN_ID, now, usedNullifiers)
      gate   == Gate(result, WrapperRequirements)
  IN  /\ CanArrive(r)
      /\ requests' = [requests EXCEPT ![r] =
           [entry |-> "withX402Payment", pc |-> gate.pc, method |-> "POST",
            path |-> PaidPath, header |-> h,
            requirements |-> WrapperRequirements, verified |-> result.valid,
            payload |-> result.payload, ran |-> 0, response |-> gate.response]]
      /\ UNCHANGED <<usedNullifiers, now, nodeEnv, deployerKey, vin, vout, rin, rout>>

\* const response = await handler(request, ...args)
WrapperHandler(r, status) ==
  /\ requests[r].entry = "withX402Payment"
  /\ requests[r].pc = "verified"
  /\ requests' = [requests EXCEPT ![r].pc = "handled",
                                  ![r].ran = @ + 1,
                                  ![r].response = PlainResponse(status)]
  /\ UNCHANGED <<usedNullifiers, now, nodeEnv, deployerKey, vin, vout, rin, rout>>

\* await handler(request, ...args) rejects: the wrapper's promise rejects with
\* it, nothing after line 380 runs and the framework answers 500
WrapperHandlerThrows(r) ==
  /\ requests[r].entry = "withX402Payment"
  /\ requests[r].pc = "verified"
  /\ requests' = [requests EXCEPT ![r].pc = "done",
                                  ![r].ran = @ + 1,
                                  ![r].response = PlainResponse(500)]
  /\ UNCHANGED <<usedNullifiers, now, nodeEnv, deployerKey, vin, vout, rin, rout>>

\* a settlement condition that forgets the handler's status
ShouldSettleAlways(response, payload) == payload # NoPayload

\* response.status < 400 && paymentResult.payload
ShouldSettle(response, payload) == response.status < 400 /\ payload # NoPayload

\* if (response.status < 400 && paymentResult.payload) { settle } return response
WrapperSettle(r) ==
  LET q == requests[r]
      s == settlePayment(q.payload, q.requirements, FALSE, TRUE, usedNullifiers, now)
  IN  /\ q.entry = "withX402Payment"
      /\ q.pc = "handled"
      /\ IF ShouldSettle(q.response, q.payload)
         THEN /\ usedNullifiers' = s.store
              /\ requests' = [requests EXCEPT ![r].pc = "done",
                   ![r].response.paymentResponse =
                      IF s.settlement.success
                      THEN encodeSettlementResponse(s.settlement) ELSE @]
         ELSE /\ usedNullifiers' = usedNullifiers
              /\ requests' = [requests EXCEPT ![r].pc = "done"]
      /\ UNCHANGED <<now, nodeEnv, deployerKey, vin, vout, rin, rout>>

(***************************************************************************)
(* middleware (middleware.ts)                                              *)
(***************************************************************************)
startsWith(s, prefix) ==
  Len(s) >= Len(prefix) /\ SubSeq(s, 1, Len(prefix)) = prefix

MiddlewareRequirements(config) ==
  [scheme |-> SchemeOf(config.useZkProof), network |-> Network,
   maxAmountRequired |-> config.price, payTo |-> AgentWallet,
   resource |-> "https://monexus/api/ai/agent",
   description |-> config.description, mimeType |-> "application/json",
   contractAddress |-> ContractAddress, bountyId |-> config.bountyId]

Middleware(r, method, path, h) ==
  LET match  == matchRoute(path, toUpperCase(method), PROTECTED_ROUTES)
      reqs   == MiddlewareRequirements(match.config)
      result == verifyPaymentFromRequest(Request(h), reqs, CHAIN_ID, now,
                                         usedNullifiers)
      base   == [IdleRequest EXCEPT !.entry = "middleware", !.pc = "done",
                                     !.method = method, !.path = path,
                                     !.header = h]
      passed == [base EXCEPT !.response = NextResponseNext]
  IN  /\ CanArrive(r)
      /\ requests' = [requests EXCEPT ![r] =
           IF nodeEnv = "development" THEN passed
           ELSE IF ~startsWith(path, AgentPath) THEN passed
           ELSE IF match.null THEN passed
           ELSE IF h.kind = "none"
           THEN [base EXCEPT !.requirements = reqs,
                   !.response = createPaymentRequiredResponse(<<reqs>>,
                                  <<"Payment required to access this resource">>)]
           ELSE IF ~result.valid
           THEN [base EXCEPT !.requirements = reqs,
                   !.response = createPaymentRequiredResponse(<<reqs>>, result.error)]
           ELSE [passed EXCEPT !.requirements = reqs, !.verified = TRUE,
                               !.payload = result.payload]]
      /\ UNCHANGED <<usedNullifiers, now, nodeEnv, deployerKey, vin, vout, rin, rout>>

(***************************************************************************)
(* /api/payments POST (api/payments/route.ts): actions 'transfer' and      *)
(* 'pay-bounty'.  service: createAgentPaymentService() returned a service  *)
(* (and, for pay-bounty, the bounty has a contractBountyId).               *)
(***************************************************************************)
TransferRequirements(useZkProof) ==
  [scheme |-> SchemeOf(useZkProof), network |-> Network,
   maxAmountRequired |-> Amt001, payTo |-> WalletB,
   resource |-> "https://monexus/api/payments",
   description |-> "Direct transfer", mimeType |-> "application/json",
   contractAddress |-> ContractAddress, bountyId |-> Undefined]

PayBountyRequirements(useZkProof) ==
  [scheme |-> SchemeOf(useZkProof), network |-> Network,
   maxAmountRequired |-> Amt001, payTo |-> WalletB,
   resource |-> "https://monexus/api/payments",
   description |-> "Bounty payment", mimeType |-> "application/json",
   contractAddress |-> ContractAddress, bountyId |-> "bounty-1"]

\* the settlement header of a successful agent payment
AgentSettlement ==
  [success |-> TRUE, txHash |-> "0xTX", receipt |-> [kind |-> "agent"], error |-> <<>>]

Transfer(r, useZkProof, h, service) ==
  LET reqs   == TransferRequirements(useZkProof)
      result == verifyPaymentFromRequest(Request(h), reqs, CHAIN_ID, now,
                                         usedNullifiers)
      gate   == Gate(result, reqs)
  IN  /\ CanArrive(r)
      /\ requests' = [requests EXCEPT ![r] =
           [entry |-> "transfer",
            pc |-> IF gate.pc = "verified" /\ service THEN "verified" ELSE "done",
            method |-> "POST", path |-> PaymentsPath, header |-> h,
            requirements |-> reqs, verified |-> result.valid,
            payload |-> result.payload, ran |-> 0,
            response |-> IF gate.pc = "verified" /\ ~service
                         THEN PlainResponse(503) ELSE gate.response]]
      /\ UNCHANGED <<usedNullifiers, now, nodeEnv, deployerKey, vin, vout, rin, rout>>

\* const result = await agentService.transfer(...); respond
TransferDone(r, success) ==
  /\ requests[r].entry = "transfer"
  /\ requests[r].pc = "verified"
  /\ requests' = [requests EXCEPT ![r].pc = "done",
                                  ![r].ran = @ + 1,
                                  ![r].response =
                    [PlainResponse(200) EXCEPT
                       !.error = IF success THEN <<>> ELSE <<"Transfer failed: ">>,
                       !.paymentResponse =
                          IF success THEN encodeSettlementResponse(AgentSettlement)
                          ELSE NoHeaderValue]]
  /\ UNCHANGED <<usedNullifiers, now, nodeEnv, deployerKey, vin, vout, rin, rout>>

PayBounty(r, isCreator, useZkProof, h, service) ==
  LET reqs   == PayBountyRequirements(useZkProof)
      result == verifyPaymentFromRequest(Request(h), reqs, CHAIN_ID, now,
                                         usedNullifiers)
      gate   == IF isCreator
                THEN [pc |-> "verified", response |-> PlainResponse(0)]
                ELSE Gate(result, reqs)
  IN  /\ CanArrive(r)
      /\ isCreator => h = NoHeader
      /\ requests' = [requests EXCEPT ![r] =
           [entry |-> "pay-bounty",
            pc |-> IF gate.pc = "verified" /\ service THEN "verified" ELSE "done",
            method |-> "POST", path |-> PaymentsPath, header |-> h,
            requirements |-> IF isCreator THEN NoRequirements ELSE reqs,
            verified |-> ~isCreator /\ result.valid,
            payload |-> IF isCreator THEN NoPayload ELSE result.payload,
            ran |-> 0,
            response |-> IF gate.pc = "verified" /\ ~service
                         THEN PlainResponse(503) ELSE gate.response]]
      /\ UNCHANGED <<usedNullifiers, now, nodeEnv, deployerKey, vin, vout, rin, rout>>

\* const result = await agentService.payBountyWinner(...); respond
PayBountyDone(r, success) ==
  /\ requests[r].entry = "pay-bounty"
  /\ requests[r].pc = "verified"
  /\ requests' = [requests EXCEPT ![r].pc = "done",
                                  ![r].ran = @ + 1,
                                  ![r].response = PlainResponse(200)]
  /\ UNCHANGED <<usedNullifiers, now, nodeEnv, deployerKey, vin, vout, rin, rout>>

\* the (method, path) pairs sent through the middleware
MiddlewareTargets ==
  {<<"POST", AgentPath>>, <<"GET", AgentPath>>, <<"POST", AgentSubPath>>,
   <<"POST", PostsPath>>}

Next ==
  \/ Tick
  \/ \E r \in Slots, h \in Headers : WrapperVerify(r, h)
  \/ \E r \in Slots, status \in {200, 500} : WrapperHandler(r, status)
  \/ \E r \in Slots : WrapperHandlerThrows(r)
  \/ \E r \in Slots : WrapperSettle(r)
  \/ \E r \in Slots, mp \in MiddlewareTargets, h \in Headers :
        Middleware(r, mp[1], mp[2], h)
  \/ \E r \in Slots, z \in BOOLEAN, h \in Headers : Transfer(r, z, h, deployerKey)
  \/ \E r \in Slots, ok \in BOOLEAN : TransferDone(r, ok)
  \/ \E r \in Slots, c \in BOOLEAN, h \in Headers, escrowed \in BOOLEAN :
        PayBounty(r, c, TRUE, h, deployerKey /\ escrowed)
  \/ \E r \in Slots, ok \in BOOLEAN : PayBountyDone(r, ok)

Spec == Init /\ [][Next]_vars

(***************************************************************************)
(* Properties of the server (Spec)                                         *)
(***************************************************************************)
HasProof(h) ==
  h.kind = "b64" /\ h.json.scheme = "zk-exact" /\ h.json.payload.zkProof.present

InFlight(q) == q.pc \in {"verified", "handled"}

\* C1: of two requests that present the same ZkExact proof to
\* withX402Payment and are in flight at the same time, at most one is
\* accepted: the wrapped handler does not run for both.
C1_ConcurrentProofAcceptedOnce ==
  \A r1, r2 \in Slots :
     (/\ r1 # r2
      /\ requests[r1].entry = "withX402Payment"
      /\ requests[r2].entry = "withX402Payment"
      /\ HasProof(requests[r1].header)
      /\ requests[r1].header = requests[r2].header
      /\ InFlight(requests[r1]) /\ InFlight(requests[r2]))
     => ~(requests[r1].ran >= 1 /\ requests[r2].ran >= 1)

\* a request whose ZkExact payment withX402Payment accepted and settled
Settled(q) ==
  /\ q.entry = "withX402Payment"
  /\ q.pc = "done"
  /\ q.verified
  /\ HasProof(q.header)
  /\ q.response.status < 400
  /\ q.response.paymentResponse.present

\* slot r takes a request of withX402Payment that presents a proof which an
\* earlier request has settled
LaterPresentation(r) ==
  /\ requests[r].pc = "idle"
  /\ requests'[r].entry = "withX402Payment"
  /\ \E r0 \in Slots : Settled(requests[r0]) /\ requests[r0].header = requests'[r].header

\* C2 as stated: every later presentation of a settled proof is answered 402
\* with the spent-nullifier error and the handler does not run for it.
C2_LaterAlwaysNullifierSpent ==
  [][\A r \in Slots : LaterPresentation(r) =>
        /\ requests'[r].pc = "done"
        /\ requests'[r].ran = 0
        /\ requests'[r].response.status = 402
        /\ requests'[r].response.error = NullifierSpentError]_vars

\* C2 amended: every later presentation of a settled payload to the same
\* wrapped route is answered 402 and the handler never runs for it; the error
\* is the spent-nullifier error when the payload is at most 300 seconds old
\* at that time, and the expiry error when it is older.
C2_LaterAlwaysRejected ==
  [][/\ \A r \in Slots : LaterPresentation(r) =>
          /\ requests'[r].pc = "done"
          /\ requests'[r].ran = 0
          /\ requests'[r].response.status = 402
          /\ requests'[r].response.error =
               IF now - requests'[r].header.json.payload.timestamp <= PaymentMaxAge
               THEN NullifierSpentError ELSE <<"Payment expired">>
     /\ \A r \in Slots : requests[r].pc = "done" => requests'[r] = requests[r]]_vars

\* C2 witness: a proof has been settled and a second request presenting it
\* has been answered 402 with the spent-nullifier error.
C2_Witness ==
  \E r1, r2 \in Slots :
     /\ Settled(requests[r1])
     /\ r2 > r1
     /\ requests[r2].entry = "withX402Payment"
     /\ requests[r2].header = requests[r1].header
     /\ requests[r2].pc = "done"
     /\ requests[r2].ran = 0
     /\ requests[r2].response.status = 402
     /\ requests[r2].response.error = NullifierSpentError

\* the request passed its payment check with a ZkExact proof and the
\* protected action went ahead
Proceeded(q) ==
  /\ q.verified
  /\ HasProof(q.header)
  /\ \/ q.entry = "withX402Payment" /\ q.ran >= 1
     \/ q.entry = "middleware" /\ q.response.next
     \/ q.entry \in {"transfer", "pay-bounty"} /\ (q.pc = "verified" \/ q.ran >= 1)

\* C3: a nullifier is consumed at most once over all entry points: no two
\* requests proceed on proofs with the same nullifier.
C3_NullifierConsumedOnce ==
  \A r1, r2 \in Slots :
     (r1 # r2 /\ Proceeded(requests[r1]) /\ Proceeded(requests[r2]))
     => requests[r1].header.json.payload.zkProof.nullifier
          # requests[r2].header.json.payload.zkProof.nullifier

\* C7: the handler wrapped by withX402Payment runs at most once per request
\* and only after verification returned valid; a request without a payment
\* header or with a rejected payload is answered 402 and the handler is not
\* run for it.
C7_HandlerOnlyWhenVerified ==
  \A r \in Slots :
     LET q == requests[r]
     IN  q.entry = "withX402Payment" =>
           /\ q.ran <= 1
           /\ q.ran >= 1 => q.verified
           /\ InFlight(q) => q.verified
           /\ (~q.verified \/ q.header = NoHeader
                 \/ q.header = encodePaymentPayload(ExactPayload1)) =>
                /\ q.pc = "done"
                /\ q.ran = 0
                /\ q.response.status = 402

\* C7 witness: the handler has run once for a verified request, and a
\* request without a payment header has been answered 402 without it.
C7_Witness ==
  \E r1, r2 \in Slots :
     /\ requests[r1].entry = "withX402Payment"
     /\ requests[r1].verified
     /\ requests[r1].ran = 1
     /\ requests[r1].pc = "done"
     /\ requests[r2].entry = "withX402Payment"
     /\ requests[r2].header = NoHeader
     /\ requests[r2].response.status = 402
     /\ requests[r2].ran = 0

\* (method, path) matches an entry of the route policy table
Configured(method, path) ==
  \E i \in 1..Len(PROTECTED_ROUTES) :
     /\ PROTECTED_ROUTES[i].key.method \in {toUpperCase(method), "*"}
     /\ GlobMatches(PROTECTED_ROUTES[i].key.path, path)

\* slot r takes a request through the middleware
MiddlewareStep(r) ==
  requests[r].pc = "idle" /\ requests'[r].entry = "middleware"

\* C8: the middleware lets every request through whose (method, path)
\* matches no entry of the policy table, with or without a payment header,
\* and lets a request to a configured route through when its payment
\* verifies; neither is answered 402.
C8_RouteGating ==
  [][\A r \in Slots : MiddlewareStep(r) =>
        LET q == requests'[r]
        IN  /\ ~Configured(q.method, q.path) =>
                 q.response.next /\ q.response.status # 402
            /\ (/\ Configured(q.method, q.path)
                /\ verifyPaymentFromRequest(Request(q.header),
                     MiddlewareRequirements(PROTECTED_ROUTES[1].config),
                     CHAIN_ID, now, usedNullifiers).valid) =>
                 q.response.next /\ q.response.status # 402]_vars

\* C8 witness: with enforcement on, a request to the configured route has
\* passed on its verified payment, and a request without a payment header to
\* a route that is not configured has passed too.
C8_Witness ==
  /\ nodeEnv = "production"
  /\ \E r1, r2 \in Slots :
        /\ requests[r1].entry = "middleware"
        /\ requests[r1].method = "POST" /\ requests[r1].path = AgentPath
        /\ requests[r1].verified
        /\ requests[r1].response.next
        /\ requests[r2].entry = "middleware"
        /\ requests[r2].method = "GET" /\ requests[r2].path = AgentPath
        /\ requests[r2].header = NoHeader
        /\ requests[r2].response.next

\* the request q is one to a protected route: a wrapped route, the transfer
\* action, the pay-bounty action of a caller who is not the creator, or a
\* (method, path) of the middleware's policy table
Protected(q) ==
  \/ q.entry = "withX402Payment"
  \/ q.entry = "transfer"
  \/ q.entry = "pay-bounty" /\ q.requirements # NoRequirements
  \/ q.entry = "middleware" /\ Configured(q.method, q.path)

\* slot r takes a request without a payment header
UnpaidStep(r) ==
  /\ requests[r].pc = "idle" /\ requests'[r].pc # "idle"
  /\ requests'[r].header = NoHeader

\* the step answers slot r with the 402 of createPaymentRequiredResponse and
\* changes nothing else
Issues402(r) ==
  LET q == requests'[r]
  IN  /\ q.pc = "done"
      /\ q.response.status = 402
      /\ q.response.x402Version = 1
      /\ q.response.error # <<>>
      /\ q.response.accepts = <<JSONStringify(q.requirements)>>
      /\ q.response.paymentRequired.present
      /\ decodePaymentRequired(q.response.paymentRequired) = q.response.accepts
      /\ ~q.response.paymentResponse.present
      /\ usedNullifiers' = usedNullifiers
      /\ now' = now /\ nodeEnv' = nodeEnv /\ deployerKey' = deployerKey
      /\ \A o \in Slots \ {r} : requests'[o] = requests[o]

NullifierOf(h) == h.json.payload.zkProof.nullifier

\* the step completes the withX402Payment request in slot r
WrapperCompletes(r) ==
  /\ requests[r].entry = "withX402Payment"
  /\ InFlight(requests[r])
  /\ requests'[r].pc = "done"

\* C12: in withX402Payment a verified ZkExact payment is settled if and only
\* if the handler's status is below 400: the request then completes with the
\* nullifier in the ledger and a PAYMENT-RESPONSE header; with a status of 400
\* or above it completes with the ledger unchanged and no PAYMENT-RESPONSE
\* header; and the ledger changes at no other step.
C12_SettleOnlyBelow400 ==
  [][/\ \A r \in Slots :
          (WrapperCompletes(r) /\ HasProof(requests[r].header)) =>
             IF requests'[r].response.status < 400
             THEN /\ usedNullifiers' = usedNullifiers \cup {NullifierOf(requests[r].header)}
                  /\ requests'[r].response.paymentResponse.present
             ELSE /\ usedNullifiers' = usedNullifiers
                  /\ ~requests'[r].response.paymentResponse.present
     /\ usedNullifiers' # usedNullifiers =>
          \E r \in Slots : /\ WrapperCompletes(r)
                           /\ requests[r].pc = "handled"
                           /\ requests[r].response.status < 400]_vars

\* C12 witness: of two verified requests with the same proof, the one whose
\* handler answered 500 has completed without PAYMENT-RESPONSE header and the
\* one whose handler answered 200 has been settled.
C12_Witness ==
  \E r1, r2 \in Slots :
     /\ requests[r1].entry = "withX402Payment"
     /\ requests[r1].verified /\ HasProof(requests[r1].header)
     /\ requests[r1].pc = "done" /\ requests[r1].ran = 1
     /\ requests[r1].response.status = 500
     /\ ~requests[r1].response.paymentResponse.present
     /\ Settled(requests[r2])
     /\ requests[r2].response.status = 200
     /\ usedNullifiers = {NullifierOf(requests[r2].header)}

\* the handler of the withX402Payment request q failed after verification
HandlerFailed(q) ==
  /\ q.entry = "withX402Payment"
  /\ q.verified /\ HasProof(q.header)
  /\ q.pc = "done" /\ q.ran = 1
  /\ q.response.status >= 400

\* C13 as stated: once a request whose handler failed after verification has
\* completed, the nullifier of its proof is in the ledger.
C13_FailureConsumesNullifier ==
  \A r \in Slots :
     HandlerFailed(requests[r]) => NullifierOf(requests[r].header) \in usedNullifiers

\* C13 amended: a handler failure consumes nothing: the ledger holds exactly
\* the nullifiers of the requests that were settled after a handler status
\* below 400, so a proof whose handler failed stays unspent until some request
\* presenting it succeeds.
C13_FailureLeavesNullifier ==
  usedNullifiers =
    {NullifierOf(requests[r].header) : r \in {x \in Slots : Settled(requests[x])}}

\* C13 witness: the handler failed for a verified proof, the ledger is still
\* empty, and a later request presenting the same proof has been verified.
C13_Witness ==
  \E r1, r2 \in Slots :
     /\ r1 < r2
     /\ HandlerFailed(requests[r1])
     /\ requests[r2].entry = "withX402Payment"
     /\ requests[r2].header = requests[r1].header
     /\ requests[r2].verified
     /\ requests[r2].pc = "verified"
     /\ usedNullifiers = {}

\* the request q presented a payload and was answered with a rejection 402
RejectedRequest(q) ==
  /\ q.pc = "done"
  /\ q.header # NoHeader
  /\ ~q.verified
  /\ q.response.status = 402

\* C14 as stated: once a request presenting a payload has been rejected, no
\* later request presenting the same payload is accepted, against whatever
\* requirement.
C14_RejectedStaysInvalid ==
  \A r1, r2 \in Slots :
     (/\ r1 < r2
      /\ RejectedRequest(requests[r1])
      /\ requests[r2].header = requests[r1].header)
     => ~requests[r2].verified

\* C14 amended: once a request presenting a payload has been rejected against
\* a requirement, no later request presenting the same payload against the
\* same requirement is accepted; against another requirement the payload is
\* verified afresh.
C14_RejectedAgainBySameRequirement ==
  \A r1, r2 \in Slots :
     (/\ r1 < r2
      /\ RejectedRequest(requests[r1])
      /\ requests[r2].header = requests[r1].header
      /\ requests[r2].requirements = requests[r1].requirements)
     => ~requests[r2].verified

\* C14 witness: an expired payload has been rejected twice by the same
\* wrapped route, and an Exact payload that a ZkExact requirement rejected
\* has been rejected by it again.
C14_Witness ==
  \/ \E r1, r2 \in Slots :
        /\ r1 < r2
        /\ RejectedRequest(requests[r1]) /\ RejectedRequest(requests[r2])
        /\ requests[r1].entry = "withX402Payment"
        /\ requests[r2].entry = "withX402Payment"
        /\ requests[r2].header = requests[r1].header
        /\ requests[r1].response.error = <<"Payment expired">>
        /\ requests[r2].response.error = <<"Payment expired">>
  \/ \E r1, r2 \in Slots :
        /\ r1 < r2
        /\ RejectedRequest(requests[r1]) /\ RejectedRequest(requests[r2])
        /\ requests[r1].entry = "transfer" /\ requests[r2].entry = "transfer"
        /\ requests[r2].header = requests[r1].header
        /\ requests[r2].requirements = requests[r1].requirements
        /\ requests[r1].response.error = <<"Payment scheme mismatch">>

\* C15: the payload nonce is single-use: no two requests whose payment was
\* accepted carry the same (sender, nonce), whatever their scheme.
C15_NonceSingleUse ==
  \A r1, r2 \in Slots :
     (/\ r1 # r2
      /\ requests[r1].verified /\ requests[r2].verified)
     => <<requests[r1].header.json.payload.sender,
          requests[r1].header.json.payload.nonce>>
        # <<requests[r2].header.json.payload.sender,
            requests[r2].header.json.payload.nonce>>

\* C17: a payment settled through withX402Payment is settled on chain, its
\* settlement carrying the txHash, when the requirement carries a
\* contractAddress and the administrative key is configured; otherwise the
\* settlement is success=true with the receipt offchain:<nonce>:<timestamp>
\* and no txHash.
C17_SettlementKind ==
  \A r \in Slots :
     LET q == requests[r]
         settlement == q.response.paymentResponse.b64
     IN  Settled(q) =>
           IF Truthy(q.requirements.contractAddress) /\ deployerKey
           THEN /\ settlement.success
                /\ settlement.txHash # Undefined
                /\ settlement.receipt.kind = "settled"
           ELSE /\ settlement.success
                /\ settlement.txHash = Undefined
                /\ settlement.receipt.kind = "offchain"
                /\ settlement.receipt.nonce = q.payload.payload.nonce

\* the payment of q was verified and its protected action has answered with a
\* status below 400
Answered(q) ==
  /\ q.entry \in {"withX402Payment", "transfer"}
  /\ q.verified
  /\ q.pc = "done" /\ q.ran = 1
  /\ q.response.status < 400

\* C18: a settlement failure is surfaced in the settlement header and nowhere
\* else: every answered request carries a PAYMENT-RESPONSE header, which
\* decodes to {success: false, error} when the transfer failed, and the
\* response itself does not report the failure.
C18_FailureInSettlementHeader ==
  \A r \in Slots :
     LET q == requests[r]
     IN  Answered(q) =>
           /\ q.response.paymentResponse.present
           /\ ~q.response.paymentResponse.b64.success =>
                q.response.paymentResponse.b64.error # <<>>
           /\ q.response.error = <<>>

(***************************************************************************)
(* SpecLedger: the nullifier store on its own, driven through its three    *)
(* exported operations.  vin is the log of the calls made so far, each     *)
(* with the value it returned and the store it left behind.                *)
(***************************************************************************)
MaxOps == 4

LedgerNullifiers == {"0xn1", "0xn2", "0xn3"}

LedgerEntry(op, nullifier, result, after) ==
  [op |-> op, nullifier |-> nullifier, result |-> result, after |-> after]

InitLedger ==
  /\ usedNullifiers = {}
  /\ now = T0
  /\ nodeEnv = "production"
  /\ deployerKey = FALSE
  /\ requests = [r \in 1..NumRequests |-> IdleRequest]
  /\ vin = <<>>
  /\ vout = NoOutput
  /\ rin = NoInput
  /\ rout = NoOutput

LedgerMark(n) ==
  /\ Len(vin) < MaxOps
  /\ usedNullifiers' = markNullifierUsed(usedNullifiers, n)
  /\ vin' = Append(vin, LedgerEntry("mark", n, FALSE, usedNullifiers'))
  /\ UNCHANGED <<now, nodeEnv, deployerKey, requests, vout, rin, rout>>

LedgerQuery(n) ==
  /\ Len(vin) < MaxOps
  /\ vin' = Append(vin, LedgerEntry("query", n,
                                    isNullifierUsed(usedNullifiers, n),
                                    usedNullifiers))
  /\ UNCHANGED <<usedNullifiers, now, nodeEnv, deployerKey, requests, vout, rin, rout>>

LedgerClear ==
  /\ Len(vin) < MaxOps
  /\ usedNullifiers' = clearNullifiers(usedNullifiers)
  /\ vin' = Append(vin, LedgerEntry("clear", "", FALSE, usedNullifiers'))
  /\ UNCHANGED <<now, nodeEnv, deployerKey, requests, vout, rin, rout>>

NextLedger ==
  \/ \E n \in LedgerNullifiers : LedgerMark(n)
  \/ \E n \in LedgerNullifiers : LedgerQuery(n)
  \/ LedgerClear

SpecLedger == InitLedger /\ [][NextLedger]_vars

\* the store as it was before the i-th call of the log
StoreBefore(i) == IF i = 1 THEN {} ELSE vin[i - 1].after

\* nullifier n was marked by a call that no later call of clearNullifiers follows
MarkedSinceClear(n) ==
  \E i \in 1..Len(vin) :
     /\ vin[i].op = "mark" /\ vin[i].nullifier = n
     /\ \A j \in (i + 1)..Len(vin) : vin[j].op # "clear"

\* C19: the ledger is empty at start; markNullifierUsed inserts its
\* nullifier and is idempotent; isNullifierUsed answers true exactly for the
\* nullifiers marked since the last clear; no call but clearNullifiers ever
\* removes an entry, and clearNullifiers empties the ledger.
C19_LedgerSemantics ==
  /\ vin = <<>> => usedNullifiers = {}
  /\ vin # <<>> => usedNullifiers = vin[Len(vin)].after
  /\ \A n \in LedgerNullifiers :
        isNullifierUsed(usedNullifiers, n) <=> MarkedSinceClear(n)
  /\ \A i \in 1..Len(vin) :
        LET e == vin[i]
            before == StoreBefore(i)
        IN  /\ e.op = "mark" =>
                 /\ e.after = before \cup {e.nullifier}
                 /\ e.nullifier \in before => e.after = before
            /\ e.op = "query" =>
                 /\ e.after = before
                 /\ e.result = (e.nullifier \in before)
            /\ e.op = "clear" => e.after = {}
            /\ e.op # "clear" => before \subseteq e.after

\* reached: a nullifier marked twice, the second call changing nothing, then
\* cleared and queried, the query answering false
C19_Witness ==
  /\ Len(vin) = 4
  /\ vin[1].op = "mark" /\ vin[2].op = "mark"
  /\ vin[2].nullifier = vin[1].nullifier
  /\ vin[2].after = vin[1].after
  /\ vin[3].op = "clear"
  /\ vin[4].op = "query" /\ vin[4].nullifier = vin[1].nullifier
  /\ ~vin[4].result

\* the step in which request r arrives and its payment header is verified
Verifies(r) == requests[r].pc = "idle" /\ requests'[r].pc # "idle"

\* C20: verification is read-only.  The step that verifies the payment of a
\* request leaves the nullifier ledger as it was, leaves every other request
\* as it was, and leaves the result that verifying any header would give as
\* it was, whether the verified payload was accepted or rejected.
C20_VerificationReadOnly ==
  [][\A r \in Slots :
       Verifies(r) =>
         /\ usedNullifiers' = usedNullifiers
         /\ \A o \in Slots \ {r} : requests'[o] = requests[o]
         /\ \A h \in Headers :
              verifyPaymentFromRequest(Request(h), WrapperRequirements,
                                       CHAIN_ID, now', usedNullifiers')
              = verifyPaymentFromRequest(Request(h), WrapperRequirements,
                                         CHAIN_ID, now, usedNullifiers)]_vars

\* reached: a request whose payment was verified is still in flight when a
\* later request presenting a payload is rejected, and the ledger is empty
C20_Witness ==
  \E o, r \in Slots :
     /\ o < r
     /\ requests[o].pc = "verified" /\ requests[o].verified
     /\ HasProof(requests[o].header)
     /\ RejectedRequest(requests[r])
     /\ usedNullifiers = {}

(***************************************************************************)
(* One whole run of the handler withX402Payment returns, for a request     *)
(* that nothing interleaves with: verification, the wrapped handler        *)
(* answering handlerStatus, settlement.  Returns the store and the         *)
(* response.                                                               *)
(***************************************************************************)
withX402Payment(request, requirements, handlerStatus, store, clock) ==
  LET result   == verifyPaymentFromRequest(request, requirements, CHAIN_ID,
                                           clock, store)
      response == PlainResponse(handlerStatus)
      s        == settlePayment(result.payload, requirements, FALSE, TRUE,
                                store, clock)
  IN  IF ~result.valid
      THEN [store |-> store, response |-> Gate(result, requirements).response]
      ELSE IF ShouldSettle(response, result.payload)
      THEN [store |-> s.store,
            response |-> [response EXCEPT !.paymentResponse =
                            IF s.settlement.success
                            THEN encodeSettlementResponse(s.settlement) ELSE @]]
      ELSE [store |-> store, response |-> response]

(***************************************************************************)
(* X402Client.fetch (lib/x402/client.ts).  An optional boolean is one of   *)
(* "undefined", "true", "false"; an absent paymentAmount is the empty      *)
(* string.                                                                 *)
(***************************************************************************)
OptionalBooleans == {Undefined, "true", "false"}

\* forceZkProof ?? this.config.useZkProof ?? false
ClientUseZk(forceZkProof, configUseZk) ==
  IF forceZkProof # Undefined THEN forceZkProof = "true"
  ELSE IF configUseZk # Undefined THEN configUseZk = "true"
  ELSE FALSE

\* useZk ? 'zk-exact' : 'exact'
preferredScheme(useZk) == IF useZk THEN "zk-exact" ELSE "exact"

RequirementFields ==
  {"scheme", "network", "maxAmountRequired", "payTo", "resource",
   "description", "mimeType", "contractAddress", "bountyId"}

\* a requirement as JSON.parse gives it back: a dropped property reads undefined
ParsedRequirement(obj) ==
  [f \in RequirementFields |-> IF f \in DOMAIN obj THEN obj[f] ELSE Undefined]

\* the requirements of a 402: the PAYMENT-REQUIRED header, else body.accepts
RequirementsOf402(response) ==
  IF response.paymentRequired.present
  THEN [found |-> TRUE, list |-> decodePaymentRequired(response.paymentRequired)]
  ELSE IF response.accepts.present
  THEN [found |-> TRUE, list |-> response.accepts.list]
  ELSE [found |-> FALSE, list |-> <<>>]

\* requirements.find((r) => r.scheme === preferredScheme) || requirements[0]
selectedReq(requirements, scheme) ==
  LET hits == {i \in 1..Len(requirements) : requirements[i].scheme = scheme}
  IN  IF hits # {}
      THEN ParsedRequirement(requirements[CHOOSE i \in hits : \A j \in hits : i <= j])
      ELSE IF requirements = <<>> THEN NoRequirements
      ELSE ParsedRequirement(requirements[1])

\* what the client sees of a response: status, the two headers, the JSON body
ClientView(response, hasAccepts) ==
  [status |-> response.status,
   json    |-> TRUE,
   paymentRequired |-> response.paymentRequired,
   paymentResponse |-> response.paymentResponse,
   error   |-> response.error,
   accepts |-> [present |-> hasAccepts, list |-> response.accepts]]

\* the same response with a body that is no JSON text
NonJson(view) ==
  [view EXCEPT !.json = FALSE, !.error = <<>>,
               !.accepts = [present |-> FALSE, list |-> <<>>]]

TransportError == [status |-> 0, json |-> FALSE, paymentRequired |-> NoHeaderValue,
                   paymentResponse |-> NoHeaderValue, error |-> <<"fetch failed">>,
                   accepts |-> [present |-> FALSE, list |-> <<>>]]

ReqExact == Requirements("exact", Amt001, Resource)
ReqZk == Requirements("zk-exact", Amt001, Resource)

Offers == {<<>>, <<ReqExact>>, <<ReqZk>>, <<ReqExact, ReqZk>>, <<ReqZk, ReqExact>>}

\* the answers a server can give to the first, unpaid request
FirstResponses ==
  {TransportError, ClientView(PlainResponse(200), FALSE),
   ClientView(PlainResponse(500), FALSE), ClientView(PlainResponse(402), FALSE)}
  \cup {ClientView(createPaymentRequiredResponse(o, <<>>), TRUE) : o \in Offers}
  \cup {ClientView([createPaymentRequiredResponse(o, <<>>)
                      EXCEPT !.paymentRequired = NoHeaderValue], TRUE) : o \in Offers}
  \cup {NonJson(ClientView(PlainResponse(200), FALSE)),
        NonJson(ClientView(createPaymentRequiredResponse(<<ReqZk>>, <<>>), TRUE))}

ClientInputs ==
  [configUseZk : OptionalBooleans, forceZkProof : OptionalBooleans,
   paymentAmount : {<<>>, Amt002}, first : FirstResponses,
   serverReq : {ReqExact, ReqZk}, handlerStatus : {200, 500},
   signer : {"signs", "fails", "hangs"}, retryFails : BOOLEAN]

NoOutcome == [returned |-> FALSE]

ClientStart ==
  [pc |-> "start", sent |-> <<>>, selected |-> NoRequirements,
   retryStatus |-> 0, outcome |-> NoOutcome, error |-> ""]

InitClient ==
  /\ usedNullifiers = {}
  /\ now = T0
  /\ nodeEnv = "production"
  /\ deployerKey = FALSE
  /\ requests = [r \in 1..NumRequests |-> IdleRequest]
  /\ vin \in ClientInputs
  /\ vout = ClientStart
  /\ rin = NoInput
  /\ rout = NoOutput

Outcome(response, paymentRequired, paymentMade) ==
  [returned |-> TRUE,
   data |-> [error |-> response.error, accepts |-> response.accepts],
   settlement |-> response.paymentResponse,
   paymentRequired |-> paymentRequired, paymentMade |-> paymentMade]

\* lines 62-104: the first request, and what is done with its answer up to
\* the call of createPayment
ClientFirstFetch ==
  LET first == vin.first
      reqs  == RequirementsOf402(first)
      useZk == ClientUseZk(vin.forceZkProof, vin.configUseZk)
      sel   == selectedReq(reqs.list, preferredScheme(useZk))
  IN  /\ vout.pc = "start"
      /\ vout' =
           IF first = TransportError
           THEN [vout EXCEPT !.pc = "threw", !.sent = <<NoHeader>>,
                             !.error = "fetch failed"]
           ELSE IF ~first.json
           THEN [vout EXCEPT !.pc = "threw", !.sent = <<NoHeader>>,
                             !.error = "Unexpected token"]
           ELSE IF first.status # 402
           THEN [vout EXCEPT !.pc = "returned", !.sent = <<NoHeader>>,
                             !.outcome = Outcome(first, FALSE, FALSE)]
           ELSE IF ~reqs.found
           THEN [vout EXCEPT !.pc = "threw", !.sent = <<NoHeader>>,
                   !.error = "No payment requirements found in 402 response"]
           ELSE IF sel = NoRequirements
           THEN [vout EXCEPT !.pc = "threw", !.sent = <<NoHeader>>,
                   !.error = "No compatible payment scheme found"]
           ELSE [vout EXCEPT !.pc = "signing", !.sent = <<NoHeader>>,
                             !.selected = sel]
      /\ UNCHANGED <<usedNullifiers, now, nodeEnv, deployerKey, requests, vin, rin, rout>>

\* the payload createPayment builds for the selected requirement
ClientPayment ==
  createPayment(vout.selected,
                IF vin.paymentAmount # <<>> THEN vin.paymentAmount
                ELSE vout.selected.maxAmountRequired,
                ClientUseZk(vin.forceZkProof, vin.configUseZk),
                WalletA, WalletA, CHAIN_ID, Nonce, ZkNonce, now)

\* a client that sends the retry although the signer rejected
ClientSignFailsRetries ==
  /\ vout.pc = "signing"
  /\ vin.signer = "fails"
  /\ vout' = [vout EXCEPT !.pc = "threw", !.error = "signing failed",
                          !.sent = Append(@, encodePaymentPayload(ClientPayment))]
  /\ UNCHANGED <<usedNullifiers, now, nodeEnv, deployerKey, requests, vin, rin, rout>>

\* await signer.signMessage(...) rejects: createPayment and fetch reject with it
ClientSignFails ==
  /\ vout.pc = "signing"
  /\ vin.signer = "fails"
  /\ vout' = [vout EXCEPT !.pc = "threw", !.error = "signing failed"]
  /\ UNCHANGED <<usedNullifiers, now, nodeEnv, deployerKey, requests, vin, rin, rout>>

\* a client that pays again when its payment is answered 402
ClientRetryLoops ==
  LET header == encodePaymentPayload(ClientPayment)
      srv    == withX402Payment(Request(header), vin.serverReq, vin.handlerStatus,
                                usedNullifiers, now)
  IN  /\ vout.pc = "signing"
      /\ vin.signer = "signs"
      /\ Len(vout.sent) < 4
      /\ IF vin.retryFails
         THEN /\ vout' = [vout EXCEPT !.pc = "threw", !.sent = Append(@, header),
                                      !.error = "fetch failed"]
              /\ usedNullifiers' = usedNullifiers
         ELSE /\ vout' = [vout EXCEPT
                            !.pc = IF srv.response.status = 402
                                   THEN "signing" ELSE "returned",
                            !.sent = Append(@, header),
                            !.retryStatus = srv.response.status,
                            !.outcome = Outcome(ClientView(srv.response, TRUE),
                                                TRUE, TRUE)]
              /\ usedNullifiers' = srv.store
      /\ UNCHANGED <<now, nodeEnv, deployerKey, requests, vin, rin, rout>>

\* lines 113-143: the signer has signed; the retry goes out with the payment
\* header, the wrapped route answers it, and fetch returns
ClientRetry ==
  LET header == encodePaymentPayload(ClientPayment)
      srv    == withX402Payment(Request(header), vin.serverReq, vin.handlerStatus,
                                usedNullifiers, now)
  IN  /\ vout.pc = "signing"
      /\ vin.signer = "signs"
      /\ IF vin.retryFails
         THEN /\ vout' = [vout EXCEPT !.pc = "threw", !.sent = Append(@, header),
                                      !.error = "fetch failed"]
              /\ usedNullifiers' = usedNullifiers
         ELSE /\ vout' = [vout EXCEPT !.pc = "returned", !.sent = Append(@, header),
                            !.retryStatus = srv.response.status,
                            !.outcome = Outcome(ClientView(srv.response, TRUE),
                                                TRUE, TRUE)]
              /\ usedNullifiers' = srv.store
      /\ UNCHANGED <<now, nodeEnv, deployerKey, requests, vin, rin, rout>>

NextClient == ClientFirstFetch \/ ClientSignFails \/ ClientRetry

SpecClient == InitClient /\ [][NextClient]_vars

\* the call has ended: fetch has returned or has thrown
ClientEnded == vout.pc \in {"returned", "threw"}

\* the first request was answered, with the status 402 or with another one
Got402 == vout.pc # "start" /\ vin.first # TransportError /\ vin.first.status = 402
GotOther == vout.pc # "start" /\ vin.first # TransportError /\ vin.first.status # 402

\* C21 as stated: a call whose first answer is not 402 has returned, unpaid,
\* after that one request; a call whose first answer is 402 ends only by
\* returning after exactly one retry that carries the payment header.
C21_ExactlyOneRetryOn402 ==
  /\ Len(vout.sent) <= 2
  /\ GotOther =>
       /\ vout.pc = "returned" /\ Len(vout.sent) = 1
       /\ ~vout.outcome.paymentRequired /\ ~vout.outcome.paymentMade
  /\ (Got402 /\ ClientEnded) =>
       /\ vout.pc = "returned"
       /\ Len(vout.sent) = 2 /\ vout.sent[2].kind = "b64"

\* the 402 names a requirement, its body is JSON and the signer signs
PayloadBuilt ==
  /\ Got402 /\ vin.first.json
  /\ RequirementsOf402(vin.first).list # <<>>
  /\ vin.signer = "signs"

\* C21 amended: a call makes at most two requests, the first without and the
\* second with a payment header, and the second only after a 402.  A call
\* that returns after a status other than 402 made one request and reports
\* paymentRequired=false, paymentMade=false.  After a 402 for which a payload
\* is built the call ends after exactly one retry, also when the retry is
\* answered 402; after a 402 for which none is built it ends after the first
\* request by throwing.
C21_AtMostOneRetry ==
  /\ Len(vout.sent) <= 2
  /\ Len(vout.sent) >= 1 => vout.sent[1] = NoHeader
  /\ Len(vout.sent) = 2 => Got402 /\ vout.sent[2].kind = "b64"
  /\ (GotOther /\ vout.pc = "returned") =>
       /\ Len(vout.sent) = 1
       /\ ~vout.outcome.paymentRequired /\ ~vout.outcome.paymentMade
  /\ (PayloadBuilt /\ ClientEnded) => Len(vout.sent) = 2
  /\ (Got402 /\ ~PayloadBuilt /\ ClientEnded) =>
       vout.pc = "threw" /\ Len(vout.sent) = 1
  /\ vout.retryStatus = 402 => vout.pc = "returned" /\ Len(vout.sent) = 2

\* reached: the retry was answered 402 and the call has returned after two
\* requests
C21_Witness ==
  /\ vout.pc = "returned"
  /\ vout.retryStatus = 402
  /\ Len(vout.sent) = 2
  /\ vout.sent[2].kind = "b64"

\* the retry went out: the request that carries the payment header
RetrySent == Len(vout.sent) = 2 /\ vout.sent[2].kind = "b64"

\* C22: on a 402 the client selects the first offered requirement whose
\* scheme is its preferred scheme, or the first offered one when none has
\* it, and the payload it sends on the retry declares the scheme of the
\* requirement it selected.
C22_SelectedSchemeDeclared ==
  LET offered   == RequirementsOf402(vin.first).list
      preferred == IF ClientUseZk(vin.forceZkProof, vin.configUseZk)
                   THEN "zk-exact" ELSE "exact"
      matching  == {i \in 1..Len(offered) : offered[i].scheme = preferred}
  IN  /\ vout.selected # NoRequirements =>
           /\ \E i \in 1..Len(offered) :
                 /\ vout.selected = ParsedRequirement(offered[i])
                 /\ IF matching = {} THEN i = 1
                    ELSE i \in matching /\ \A j \in matching : i <= j
      /\ RetrySent => vout.sent[2].json.scheme = vout.selected.scheme

C24_SigningFailureSendsNothing ==
  vin.signer # "signs" =>
     /\ Len(vout.sent) <= 1
     /\ \A i \in 1..Len(vout.sent) : vout.sent[i] = NoHeader
     /\ usedNullifiers = {}
     /\ vout.selected # NoRequirements =>
          /\ vout.pc \in {"signing", "threw"}
          /\ vout.pc = "threw" => vout.error = "signing failed"
          /\ vin.signer = "hangs" => vout.pc = "signing"
          /\ ~vout.outcome.returned

\* reached: a ZkExact requirement was selected, the signer rejected, and the
\* call has thrown
C24_Witness ==
  /\ vin.signer = "fails"
  /\ vout.selected # NoRequirements
  /\ vout.selected.scheme = "zk-exact"
  /\ vout.pc = "threw"
  /\ vout.error = "signing failed"
  /\ vout.sent = <<NoHeader>>

\* the errors of the scheme-specific verification
SchemeSpecificErrors ==
  {<<"ZK proof invalid: ", e>> :
      e \in {"Chain ID mismatch", "Contract address mismatch", "Proof expired",
             "Proof timestamp in the future", "Proof verification failed",
             "Invalid proof signature"}}
  \cup {NullifierSpentError, <<"Invalid payment signature">>}

\* C25: verifyPaymentFromRequest reports the error of the first failing
\* check in the order version, scheme, amount, age, scheme-specific
\* verification: the version error exactly when version # 1, the scheme
\* error exactly when the version is 1 and the schemes differ, the amount
\* error exactly when both pass and the amount is below the price, the
\* expiry error exactly when all three pass and now - timestamp > 300, and
\* an error of the scheme-specific verification only when all four pass.
C25_CheckOrder ==
  (vout.done /\ Decodable) =>
     LET p          == Presented
         err        == vout.result.error
         versionOk  == p.x402Version = 1
         schemeOk   == p.scheme = vin.requirements.scheme
         number     == IsNumber(p.payload.amount)
         sufficient == /\ number
                       /\ AmountUnits(p.payload.amount)
                            >= AmountUnits(vin.requirements.maxAmountRequired)
         old        == now - p.payload.timestamp > 300
     IN  /\ err = <<"Unsupported x402 version">> <=> ~versionOk
         /\ err = <<"Payment scheme mismatch">> <=> (versionOk /\ ~schemeOk)
         /\ err = <<"Insufficient payment amount">>
              <=> (versionOk /\ schemeOk /\ number /\ ~sufficient)
         /\ err = <<"Payment expired">>
              <=> (versionOk /\ schemeOk /\ sufficient /\ old)
         /\ err \in SchemeSpecificErrors
              => (versionOk /\ schemeOk /\ sufficient /\ ~old)

\* C25 witness: a payload that fails all of version, scheme, amount and age
\* has been refused with the version error.
C25_Witness ==
  /\ vout.done /\ Decodable
  /\ Presented = WirePayload(2, "exact", Amt0009, T0 - PaymentMaxAge - 1, WalletA,
                             "other", "absent")
  /\ vin.requirements.scheme = "zk-exact"
  /\ vin.requirements.maxAmountRequired = Amt001
  /\ vout.result.error = <<"Unsupported x402 version">>

\* C26: verifyPaymentProof reports the error of the first failing check in
\* the order chain id, contract address compared without case, expiry,
\* future timestamp, signature.
C26_ProofCheckOrder ==
  vout.done =>
     LET z          == vin.proof
         err        == vout.result.error
         chainOk    == z.publicInputs.chainId = 31337
         contractOk == z.publicInputs.contractAddress \in {"0xC0DE", "0xc0de"}
         expired    == now - z.proof.timestamp > 3600
         future     == z.proof.timestamp > now + 60
         signed     == z.proof.signature.kind = "sig"
     IN  /\ err = "Chain ID mismatch" <=> ~chainOk
         /\ err = "Contract address mismatch" <=> (chainOk /\ ~contractOk)
         /\ err = "Proof expired" <=> (chainOk /\ contractOk /\ expired)
         /\ err = "Proof timestamp in the future"
              <=> (chainOk /\ contractOk /\ ~expired /\ future)
         /\ err \in {"Proof verification failed", "Invalid proof signature"}
              => (chainOk /\ contractOk /\ ~expired /\ ~future /\ ~signed)

\* C26 witness: a proof with a wrong chain id and an expired timestamp has
\* been refused with the chain error.
C26_Witness ==
  /\ vout.done
  /\ vin.proof.publicInputs.chainId = 1
  /\ now - vin.proof.proof.timestamp > 3600
  /\ vin.proof.publicInputs.contractAddress = OtherContract
  /\ vin.proof.proof.signature.kind = "garbage"
  /\ vout.result.error = "Chain ID mismatch"

(***************************************************************************)
(* SpecSettle: one call of settlePayment.  The call marks the nullifier,   *)
(* then, with a signer and a contract address, awaits the transfer, which  *)
(* succeeds, fails, or never answers.                                      *)
(***************************************************************************)
ZkNonce2 == "zknonce-2"

ZkPayload2 ==
  createPayment(Requirements("zk-exact", Amt001, Resource), Amt001, TRUE,
                WalletA, WalletA, CHAIN_ID, Nonce, ZkNonce2, T0)

SettleInputs ==
  [payload : {ZkPayload1, ZkPayload2, ExactPayload1},
   requirements : {[Requirements("zk-exact", Amt001, Resource)
                      EXCEPT !.contractAddress = c] :
                        c \in {ContractAddress, "", Undefined}},
   adminSigner : BOOLEAN,
   store : {{}, {ZkPayload1.payload.zkProof.nullifier},
            {ZkPayload2.payload.zkProof.nullifier}}]

NoSettlement == [success |-> FALSE, txHash |-> Undefined,
                 receipt |-> [kind |-> "none"], error |-> <<>>]

InitSettle ==
  /\ vin \in SettleInputs
  /\ usedNullifiers = vin.store
  /\ now = T0
  /\ nodeEnv = "production"
  /\ deployerKey = FALSE
  /\ requests = [r \in 1..NumRequests |-> IdleRequest]
  /\ vout = [pc |-> "start", settlement |-> NoSettlement]
  /\ rin = NoInput
  /\ rout = NoOutput

\* lines 264-274 and 287-291: the nullifier is marked; without a signer or a
\* contract address the off-chain receipt is returned at once
SettleBegin ==
  LET s == settlePayment(vin.payload, vin.requirements, vin.adminSigner, TRUE,
                         usedNullifiers, now)
  IN  /\ vout.pc = "start"
      /\ usedNullifiers' = s.store
      /\ vout' = IF vin.adminSigner /\ Truthy(vin.requirements.contractAddress)
                 THEN [vout EXCEPT !.pc = "sending"]
                 ELSE [pc |-> "done", settlement |-> s.settlement]
      /\ UNCHANGED <<now, nodeEnv, deployerKey, requests, vin, rin, rout>>

\* lines 274-296: sendTransaction and tx.wait resolve (txOk) or reject
SettleTransferEnds(txOk) ==
  LET s == settlePayment(vin.payload, vin.requirements, vin.adminSigner, txOk,
                         usedNullifiers, now)
  IN  /\ vout.pc = "sending"
      /\ usedNullifiers' = s.store
      /\ vout' = [pc |-> "done", settlement |-> s.settlement]
      /\ UNCHANGED <<now, nodeEnv, deployerKey, requests, vin, rin, rout>>

NextSettle == SettleBegin \/ \E txOk \in BOOLEAN : SettleTransferEnds(txOk)

SpecSettle == InitSettle /\ [][NextSettle]_vars

\* the payment being settled is a ZkExact payment carrying a proof
SettlesProof == vin.payload.scheme = "zk-exact" /\ vin.payload.payload.zkProof.present

\* C27: settlePayment marks the nullifier of a ZkExact payment before the
\* transfer is attempted: it is in the ledger while the transfer is awaited,
\* and it is still there, with everything that was in the ledger before,
\* when the transfer has failed and the result is success=false.
C27_MarkedBeforeTransfer ==
  /\ (vout.pc \in {"sending", "done"} /\ SettlesProof) =>
        usedNullifiers = vin.store \cup {vin.payload.payload.zkProof.nullifier}
  /\ (vout.pc = "done" /\ ~vout.settlement.success) =>
        /\ vin.adminSigner /\ Truthy(vin.requirements.contractAddress)
        /\ vout.settlement.error # <<>>
        /\ vin.store \subseteq usedNullifiers

\* reached: the transfer failed, the result is success=false, and the
\* nullifier, which was not in the ledger before, is in it
C27_Witness ==
  /\ vout.pc = "done" /\ ~vout.settlement.success
  /\ SettlesProof
  /\ vin.payload.payload.zkProof.nullifier \notin vin.store
  /\ vin.payload.payload.zkProof.nullifier \in usedNullifiers

(***************************************************************************)
(* SpecHeader: one call of verifyPaymentFromRequest on a request that      *)
(* carries any pair of PAYMENT-SIGNATURE and X-PAYMENT values              *)
(***************************************************************************)
HeaderValues ==
  {NoHeader, EmptyHeader, GarbageHeader, encodePaymentPayload(ZkPayload1),
   encodePaymentPayload(ZkPayload2), encodePaymentPayload(ExactPayload1)}

HeaderInputs ==
  {[request |-> [paymentSignature |-> a, xPayment |-> b],
    requirements |-> Requirements(sch, Amt001, Resource)] :
     a \in HeaderValues, b \in HeaderValues, sch \in Schemes}

InitHeader ==
  /\ usedNullifiers \in {{}, {Nullifier1}}
  /\ now = T0
  /\ nodeEnv = "production"
  /\ deployerKey = FALSE
  /\ requests = [r \in 1..NumRequests |-> IdleRequest]
  /\ vin \in HeaderInputs
  /\ vout = NoOutput
  /\ rin = NoInput
  /\ rout = NoOutput

SpecHeader == InitHeader /\ [][NextVerify]_vars

\* the result of verifying a request that carries h as its only payment header
VerifiedAlone(h) ==
  verifyPaymentFromRequest([paymentSignature |-> h, xPayment |-> NoHeader],
                           vin.requirements, CHAIN_ID, now, usedNullifiers)

\* C28: the payload is read from PAYMENT-SIGNATURE or from X-PAYMENT.  A
\* request with neither, or with empty values, is refused as unpaid; a value
\* in X-PAYMENT alone is verified exactly as the same value in
\* PAYMENT-SIGNATURE alone, a valid payload being accepted in either; when
\* both carry a value the PAYMENT-SIGNATURE value is the one verified.
C28_HeaderAlias ==
  vout.done =>
     LET ps == vin.request.paymentSignature
         xp == vin.request.xPayment
         absent(h) == h \in {NoHeader, EmptyHeader}
     IN  /\ (absent(ps) /\ absent(xp)) =>
              /\ ~vout.result.valid
              /\ vout.result.error = <<"No payment header provided">>
         /\ (absent(ps) /\ ~absent(xp)) => vout.result = VerifiedAlone(xp)
         /\ ~absent(ps) => vout.result = VerifiedAlone(ps)
         /\ (/\ encodePaymentPayload(ZkPayload1) \in {ps, xp}
             /\ \E h \in {ps, xp} : absent(h)
             /\ vin.requirements.scheme = "zk-exact"
             /\ usedNullifiers = {}) =>
              vout.result.valid /\ vout.result.payload = ZkPayload1

\* C28 witness: PAYMENT-SIGNATURE carries an Exact payload and X-PAYMENT a
\* valid ZkExact payload; against a ZkExact requirement the request has been
\* refused for the scheme of the PAYMENT-SIGNATURE value.
C28_Witness ==
  /\ vout.done
  /\ vin.request.paymentSignature = encodePaymentPayload(ExactPayload1)
  /\ vin.request.xPayment = encodePaymentPayload(ZkPayload1)
  /\ vin.requirements.scheme = "zk-exact"
  /\ usedNullifiers = {}
  /\ vout.result.error = <<"Payment scheme mismatch">>

\* C29: a ZkExact payment is accepted only if the signature inside its
\* proof is a signature of the proof's binding hash made with the key of the
\* payload's declared sender.
C29_ProofSignedBySender ==
  (vout.done /\ vout.result.valid /\ ZkPresented) =>
     LET p == Presented.payload
         z == p.zkProof
     IN  /\ z.proof.signature.kind = "sig"
         /\ z.proof.signature.by = toLowerCase(p.sender)
         /\ z.proof.signature.over =
              [t |-> "zk", commitment |-> z.commitment, nullifier |-> z.nullifier,
               amountHash |-> z.proof.amountHash, senderHash |-> z.proof.senderHash,
               receiverHash |-> z.proof.receiverHash,
               timestamp |-> z.proof.timestamp]

\* C30: for every accepted ZkExact payment the amount the proof was
\* generated for, publicInputs.minAmount and the amount in the commitment,
\* is the amount the payload declares and is at least the price.
C30_ProofCoversPrice ==
  (vout.done /\ vout.result.valid /\ ZkPresented) =>
     LET p == Presented.payload
         z == p.zkProof
     IN  /\ IsNumber(z.publicInputs.minAmount)
         /\ AmountUnits(z.publicInputs.minAmount) = AmountUnits(p.amount)
         /\ AmountUnits(z.publicInputs.minAmount)
              >= AmountUnits(vin.requirements.maxAmountRequired)
         /\ z.commitment.amount = parseEther(p.amount)

====
